---- MODULE Spec2Model ----
(***************************************************************************)
(* Model of the photovoltaic electrical design engine: standards tables,   *)
(* electrical sizing helpers, the compatibility analyzer and the string    *)
(* auto-rebalance of the application component.                            *)
(*                                                                         *)
(* Units.  Cable sections are held in tenths of mm2 (2.5 mm2 = 25,         *)
(* 6 mm2 = 60, ...), so that the catalog {2.5, 6, 10, 16, 25} is a set of  *)
(* integers.  Currents are in amperes, lengths in metres, powers in VA.    *)
(* Voltage-drop comparisons "drop <= k %" are decided exactly by cross     *)
(* multiplication of the source formula instead of a rounded quotient.     *)
(***************************************************************************)
EXTENDS Integers, Sequences, FiniteSets, TLC

VARIABLES
    fields,               \* project.fields: sequence of [id, rows, columns, panel]
    configuredStrings,    \* project.inverterConfig.configuredStrings
    dcCablingRuns,        \* project.inverterConfig.dcCablingRuns
    brand,                \* project.inverterConfig.brand
    model,                \* project.inverterConfig.model
    phase,                \* project.inverterConfig.phase
    compatibilityReport,  \* the memoized compatibilityReport (useMemo)
    rebalanceEffect,      \* the rebalance effect: "idle", "pending" (a dependency changed), "ran"
    call,                 \* a pure-function evaluation: its arguments
    ret                   \* a pure-function evaluation: its result

vars == <<fields, configuredStrings, dcCablingRuns, brand, model, phase,
          compatibilityReport, rebalanceEffect, call, ret>>

appVars == <<fields, configuredStrings, dcCablingRuns, brand, model, phase,
             compatibilityReport, rebalanceEffect>>

\* null / undefined of an optional number (every real value here is >= 0)
Null == 0 - 1

Min2(a, b) == IF a <= b THEN a ELSE b

Max2(a, b) == IF a >= b THEN a ELSE b

SetMin(S) == CHOOSE x \in S : \A y \in S : x <= y

SeqToSet(s) == { s[i] : i \in 1..Len(s) }

(***************************************************************************)
(* Standards table service (standardsService).                             *)
(***************************************************************************)

\* The AC catalog sections, in tenths of mm2, in the order of AC_SECTIONS_MM2.
AC_SECTIONS_MM2 == <<25, 60, 100, 160, 250>>

\* The DC sections offered, in tenths of mm2, in the order of DC_SECTIONS_MM2.
DC_SECTIONS_MM2 == <<25, 60, 100, 160>>

\* map[section] ?? null of the standard profile
getMaxInForSectionStandard(section) ==
    CASE section = 25  -> 25
      [] section = 60  -> 40
      [] section = 100 -> 50
      [] section = 160 -> 63
      [] section = 250 -> 80
      [] OTHER -> Null

\* map[section] ?? null of the pessimistic profile
getMaxInForSectionPessimistic(section) ==
    CASE section = 25  -> 20
      [] section = 60  -> 32
      [] section = 100 -> 40
      [] section = 160 -> 63
      [] section = 250 -> 80
      [] OTHER -> Null

getMinSectionForIn(inA) ==
    IF inA <= 20 THEN 25
    ELSE IF inA <= 32 THEN 60
    ELSE IF inA <= 40 THEN 100
    ELSE IF inA <= 63 THEN 160
    ELSE 250

TooHighFromPessimistic(section, inA) ==
    LET maxPes == getMaxInForSectionPessimistic(section)
    IN  IF maxPes = Null THEN FALSE ELSE inA > maxPes

isProtectionTooHighForSection(section, inA) ==
    LET maxStd == getMaxInForSectionStandard(section)
    IN  IF maxStd = Null THEN FALSE ELSE inA > maxStd

StatusDangerFromPessimistic(section, inA) ==
    LET maxPes == getMaxInForSectionPessimistic(section)
    IN  IF maxPes = Null THEN "ok"
        ELSE IF inA > maxPes THEN "danger"
        ELSE "ok"

getProtectionStatusForSection(section, inA) ==
    LET maxPes == getMaxInForSectionPessimistic(section)
        maxStd == getMaxInForSectionStandard(section)
    IN  IF maxStd = Null THEN "ok"
        ELSE IF inA > maxStd THEN "danger"
        ELSE IF maxPes # Null /\ inA > maxPes THEN "info"
        ELSE "ok"

OversizedWhenSmaller(section, inA) == section < getMinSectionForIn(inA)

isSectionOversizedForIn(section, inA) == section > getMinSectionForIn(inA)

(***************************************************************************)
(* Electrical sizing module (electricalSizing, calculatorService).         *)
(*                                                                         *)
(* A drop percentage is a quotient of reals; the model decides the         *)
(* comparison "percentage <= k" of the source exactly.                     *)
(*   single-phase: (2 L (P/230) rho / S) / 230 * 100 <= k                  *)
(*                 <=>  L P <= 1150 k S10          (S10 = S in tenths)     *)
(*   three-phase : (sqrt(3) L (P/(400*1.732)) rho / S) / 400 * 100 <= k    *)
(*                 <=>  L P <= 6956.31767... k S10                         *)
(*   DC          : (2 L I rho / S) / V * 100 <= k                          *)
(*                 <=>  46 L Ic <= 10 k S10 Vd  (Ic in 1/100 A, Vd in      *)
(*                      1/10 V)                                            *)
(* with rho = RHO_CU = 0.023.                                              *)
(***************************************************************************)

\* computeAcDropPercent(powerVA, distanceMeters, sectionMm2, isThreePhase) <= k
computeAcDropPercentLeq(k, powerVA, distanceMeters, sectionMm2, isThreePhase) ==
    IF powerVA <= 0 \/ distanceMeters <= 0 \/ sectionMm2 <= 0 THEN 0 <= k
    ELSE IF isThreePhase
         THEN distanceMeters * powerVA
                <= k * sectionMm2 * 6956 + (k * sectionMm2 * 31768) \div 100000
         ELSE distanceMeters * powerVA <= 1150 * k * sectionMm2

\* calculateVoltageDropPercent(totalPowerWp, distanceMeters, sectionMm2, isThreePhase) <= k
calculateVoltageDropPercentLeq(k, totalPowerWp, distanceMeters, sectionMm2, isThreePhase) ==
    IF totalPowerWp <= 0 \/ distanceMeters <= 0 \/ sectionMm2 <= 0 THEN 0 <= k
    ELSE IF isThreePhase
         THEN distanceMeters * totalPowerWp
                <= k * sectionMm2 * 6956 + (k * sectionMm2 * 31768) \div 100000
         ELSE distanceMeters * totalPowerWp <= 1150 * k * sectionMm2

\* computeDcDrop(lengthM, currentA, sectionMm2, baseV).duPct <= k
computeDcDropPctLeq(k, lengthM, currentA, sectionMm2, baseV) ==
    IF lengthM <= 0 \/ currentA <= 0 \/ sectionMm2 <= 0 \/ baseV <= 0 THEN 0 <= k
    ELSE 46 * lengthM * currentA <= 10 * k * sectionMm2 * baseV

RECURSIVE DcLoop(_, _, _, _, _)
\* the for loop of pickAutoDcSectionOptionB over DC_SECTIONS_MM2.filter(s => s >= 6)
DcLoop(i, autoS, lengthM, currentA, baseV) ==
    IF i > Len(DC_SECTIONS_MM2) THEN autoS
    ELSE LET S == DC_SECTIONS_MM2[i]
         IN  IF S < 60 THEN DcLoop(i + 1, autoS, lengthM, currentA, baseV)
             ELSE IF computeDcDropPctLeq(3, lengthM, currentA, S, baseV) THEN S
             ELSE DcLoop(i + 1, S, lengthM, currentA, baseV)

DcAutoFirstOffered(lengthM, currentA, baseV) ==
    IF lengthM <= 0 \/ currentA <= 0 \/ baseV <= 0 THEN DC_SECTIONS_MM2[1]
    ELSE IF \E i \in 1..Len(DC_SECTIONS_MM2) :
                computeDcDropPctLeq(3, lengthM, currentA, DC_SECTIONS_MM2[i], baseV)
         THEN DC_SECTIONS_MM2[SetMin({ i \in 1..Len(DC_SECTIONS_MM2) :
                computeDcDropPctLeq(3, lengthM, currentA, DC_SECTIONS_MM2[i], baseV) })]
         ELSE 160

pickAutoDcSectionOptionB(lengthM, currentA, baseV) ==
    IF lengthM <= 0 \/ currentA <= 0 \/ baseV <= 0 THEN 60
    ELSE DcLoop(1, 60, lengthM, currentA, baseV)

RECURSIVE DcRowLoop(_, _, _, _, _)
\* the for loop of dcMpptDrops over DC_SECTIONS.filter(s => s >= 6), with dropFor(S)
DcRowLoop(i, autoS, L, I, V) ==
    IF i > Len(DC_SECTIONS_MM2) THEN autoS
    ELSE LET S == DC_SECTIONS_MM2[i]
         IN  IF S < 60 THEN DcRowLoop(i + 1, autoS, L, I, V)
             ELSE IF 46 * L * I <= 10 * 3 * S * V THEN S
             ELSE DcRowLoop(i + 1, S, L, I, V)

\* autoS of one row of dcMpptDrops (L in m, I in 1/100 A, V in 1/10 V)
dcMpptDropsAutoS(L, I, V) ==
    IF L > 0 /\ I > 0 /\ V > 0 THEN DcRowLoop(1, 60, L, I, V) ELSE 60

agcpToCommercialBreakerA(agcpA, isThreePhase) ==
    IF agcpA = Null \/ agcpA <= 0 THEN Null
    ELSE IF isThreePhase
         THEN IF agcpA <= 25 THEN 16
              ELSE IF agcpA <= 30 THEN 20
              ELSE IF agcpA <= 40 THEN 25
              ELSE IF agcpA <= 50 THEN 32
              ELSE 40
         ELSE IF agcpA <= 30 THEN 32
              ELSE IF agcpA <= 45 THEN 40
              ELSE 63

\* const available = isThreePhase ? [16, 20, 25, 32, 40] : [16, 20, 32, 40, 63]
BreakerLadder(isThreePhase) ==
    IF isThreePhase THEN <<16, 20, 25, 32, 40>> ELSE <<16, 20, 32, 40, 63>>

RECURSIVE LadderFind(_, _, _)
\* available.find(v => v >= x): the first ladder value >= x, Null when there is none
LadderFind(available, i, x) ==
    IF i > Len(available) THEN Null
    ELSE IF available[i] >= x THEN available[i]
    ELSE LadderFind(available, i + 1, x)

NormalizeNearestBelow(minA, isThreePhase) ==
    LET available == BreakerLadder(isThreePhase)
        below == { i \in 1..Len(available) : available[i] <= minA }
    IN  IF below = {} THEN available[1]
        ELSE available[CHOOSE i \in below : \A j \in below : j <= i]

normalizeBreakerA(minA, isThreePhase) ==
    LET available == BreakerLadder(isThreePhase)
        found == LadderFind(available, 1, Max2(0, minA))
    IN  IF found # Null THEN found ELSE available[Len(available)]

\* the inline normalizeBreaker of the screen: available.find(v => v >= minA) ?? last
normalizeBreaker(minA, isThreePhase) ==
    LET available == BreakerLadder(isThreePhase)
        found == LadderFind(available, 1, minA)
    IN  IF found # Null THEN found ELSE available[Len(available)]

RECURSIVE AcPass1(_, _, _, _, _, _)
\* first loop of pickAutoAcSectionMm2: drop <= 1 % AND protection status "ok"
AcPass1(i, powerVA, lengthM, isThreePhase, breakerA, minAuto) ==
    IF i > Len(AC_SECTIONS_MM2) THEN Null
    ELSE LET S == AC_SECTIONS_MM2[i]
         IN  IF S < minAuto
             THEN AcPass1(i + 1, powerVA, lengthM, isThreePhase, breakerA, minAuto)
             ELSE IF /\ computeAcDropPercentLeq(1, powerVA, lengthM, S, isThreePhase)
                     /\ getProtectionStatusForSection(S, breakerA) = "ok"
                  THEN S
                  ELSE AcPass1(i + 1, powerVA, lengthM, isThreePhase, breakerA, minAuto)

RECURSIVE AcPass2(_, _, _, _, _, _, _)
\* second loop of pickAutoAcSectionMm2: accept "info", refuse "danger"
AcPass2(i, chosen, powerVA, lengthM, isThreePhase, breakerA, minAuto) ==
    IF i > Len(AC_SECTIONS_MM2) THEN chosen
    ELSE LET S == AC_SECTIONS_MM2[i]
         IN  IF S < minAuto
             THEN AcPass2(i + 1, chosen, powerVA, lengthM, isThreePhase, breakerA, minAuto)
             ELSE IF /\ computeAcDropPercentLeq(1, powerVA, lengthM, S, isThreePhase)
                     /\ getProtectionStatusForSection(S, breakerA) # "danger"
                  THEN S
                  ELSE AcPass2(i + 1, S, powerVA, lengthM, isThreePhase, breakerA, minAuto)

PickAcFallbackSmallest(powerVA, lengthM, isThreePhase, breakerA, minAuto) ==
    LET first == AcPass1(1, powerVA, lengthM, isThreePhase, breakerA, minAuto)
    IN  IF first # Null THEN first ELSE AC_SECTIONS_MM2[1]

pickAutoAcSectionMm2(powerVA, lengthM, isThreePhase, breakerA, minAuto) ==
    LET first == AcPass1(1, powerVA, lengthM, isThreePhase, breakerA, minAuto)
    IN  IF first # Null THEN first
        ELSE AcPass2(1, AC_SECTIONS_MM2[1], powerVA, lengthM, isThreePhase, breakerA, minAuto)

\* Math.ceil(acCurrentMaxA * 1.25) with acCurrentMaxA = P / 230 or P / (400 * 1.732)
BreakerMinA(powerVA, isThreePhase) ==
    IF powerVA <= 0 THEN 0
    ELSE IF isThreePhase THEN (125 * powerVA + 69279) \div 69280
    ELSE (powerVA + 183) \div 184

Ac2BreakerLargerOfBoth(totalPowerW, agcpValue, isThreePhase) ==
    LET ac2AgcpCommercialA == agcpToCommercialBreakerA(agcpValue, isThreePhase)
        normalized == normalizeBreakerA(BreakerMinA(totalPowerW, isThreePhase), isThreePhase)
    IN  IF ac2AgcpCommercialA # Null THEN Max2(ac2AgcpCommercialA, normalized) ELSE normalized

\* ac2AgcpCommercialA ?? normalizeBreakerA(ac2BreakerMinA, isThreePhase)
ac2BreakerNormalizedA(totalPowerW, agcpValue, isThreePhase) ==
    LET ac2AgcpCommercialA == agcpToCommercialBreakerA(agcpValue, isThreePhase)
    IN  IF ac2AgcpCommercialA # Null THEN ac2AgcpCommercialA
        ELSE normalizeBreakerA(BreakerMinA(totalPowerW, isThreePhase), isThreePhase)

Ac2AutoWithoutFloor(powerVA, distanceToPanel, isThreePhase, breakerA) ==
    pickAutoAcSectionMm2(powerVA, distanceToPanel, isThreePhase, breakerA, AC_SECTIONS_MM2[1])

\* pickAutoAc2SectionMm2 of the bill-of-materials effect
pickAutoAc2SectionMm2(powerVA, distanceToPanel, isThreePhase, breakerA) ==
    LET minAutoSection == IF ~isThreePhase /\ (breakerA = 32 \/ breakerA = 40)
                          THEN 100 ELSE AC_SECTIONS_MM2[1]
    IN  pickAutoAcSectionMm2(powerVA, distanceToPanel, isThreePhase, breakerA, minAutoSection)

RECURSIVE UiPass1(_, _, _, _, _, _)
\* first loop of the inline pickAutoAcSection of the screen
UiPass1(i, totalPowerW, distanceToPanel, isThreePhase, breakerA, minAutoSection) ==
    IF i > Len(AC_SECTIONS_MM2) THEN Null
    ELSE LET s == AC_SECTIONS_MM2[i]
         IN  IF s < minAutoSection
             THEN UiPass1(i + 1, totalPowerW, distanceToPanel, isThreePhase, breakerA, minAutoSection)
             ELSE IF /\ calculateVoltageDropPercentLeq(1, totalPowerW, distanceToPanel, s, isThreePhase)
                     /\ getProtectionStatusForSection(s, breakerA) = "ok"
                  THEN s
                  ELSE UiPass1(i + 1, totalPowerW, distanceToPanel, isThreePhase, breakerA, minAutoSection)

RECURSIVE UiPass2(_, _, _, _, _, _, _)
\* second loop of the inline pickAutoAcSection of the screen
UiPass2(i, chosen, totalPowerW, distanceToPanel, isThreePhase, breakerA, minAutoSection) ==
    IF i > Len(AC_SECTIONS_MM2) THEN chosen
    ELSE LET s == AC_SECTIONS_MM2[i]
         IN  IF s < minAutoSection
             THEN UiPass2(i + 1, chosen, totalPowerW, distanceToPanel, isThreePhase, breakerA, minAutoSection)
             ELSE IF /\ calculateVoltageDropPercentLeq(1, totalPowerW, distanceToPanel, s, isThreePhase)
                     /\ getProtectionStatusForSection(s, breakerA) # "danger"
                  THEN s
                  ELSE UiPass2(i + 1, s, totalPowerW, distanceToPanel, isThreePhase, breakerA, minAutoSection)

\* the inline pickAutoAcSection of the screen (AC2), with its own floor rule
pickAutoAcSection(totalPowerW, distanceToPanel, isThreePhase, acBreakerNormalizedA) ==
    LET minAutoSection == IF ~isThreePhase /\ (acBreakerNormalizedA = 32 \/ acBreakerNormalizedA = 40)
                          THEN 100 ELSE AC_SECTIONS_MM2[1]
        first == UiPass1(1, totalPowerW, distanceToPanel, isThreePhase, acBreakerNormalizedA, minAutoSection)
    IN  IF first # Null THEN first
        ELSE UiPass2(1, minAutoSection, totalPowerW, distanceToPanel, isThreePhase,
                     acBreakerNormalizedA, minAutoSection)

(***************************************************************************)
(* Compatibility analyzer (compatibilityService).                          *)
(*                                                                         *)
(* Voltages are in tenths of a volt, DC currents in hundredths of an       *)
(* ampere, temperature coefficients in hundredths of %/degree.  A panel    *)
(* voltage corrected to a temperature, voc * (1 + coeff/100 * dT), is held *)
(* multiplied by 10000 ("scaled"), which keeps it an integer:              *)
(*     voc * (10000 + coeffC * dT).                                        *)
(***************************************************************************)

RECURSIVE SumSeq(_)
SumSeq(s) == IF s = <<>> THEN 0 ELSE Head(s) + SumSeq(Tail(s))

RECURSIVE MaxSeq(_)
\* the running maximum of the source, which starts from 0
MaxSeq(s) == IF s = <<>> THEN 0 ELSE Max2(Head(s), MaxSeq(Tail(s)))

RECURSIVE SortedSeq(_)
SortedSeq(S) == IF S = {} THEN <<>> ELSE <<SetMin(S)>> \o SortedSeq(S \ {SetMin(S)})

\* parseFloat(x.toFixed(1)) of a scaled voltage, in tenths of a volt
RoundScaled(x) == (x + 5000) \div 10000

\* parseFloat((isc * 1.25).toFixed(2)), in hundredths of an ampere
IscTimes125(isc) == (isc * 125 + 50) \div 100

DEFAULT_TEMP_COEFF_VOC == 0 - 26

\* pSpecs.tempCoeffVoc || DEFAULT_TEMP_COEFF_VOC
CoeffVoc(pSpecs) == IF pSpecs.tempCoeffVoc # 0 THEN pSpecs.tempCoeffVoc ELSE DEFAULT_TEMP_COEFF_VOC

\* pSpecs.voc * (1 + (coeffVoc / 100) * deltaTCold), scaled
VocColdPanel(pSpecs, tempMin) == pSpecs.voc * (10000 + CoeffVoc(pSpecs) * (tempMin - 25))

\* pSpecs.vmp * (1 + (coeffVoc / 100) * deltaTHot), scaled
VmpHotPanel(pSpecs, tempCellHot) == pSpecs.vmp * (10000 + CoeffVoc(pSpecs) * (tempCellHot - 25))

\* fields.find(f => f.id === seg.fieldId)?.panels.model || mainPanel
SegmentPanel(seg, flds, mainPanel) ==
    LET hit == { i \in 1..Len(flds) : flds[i].id = seg.fieldId }
    IN  IF hit = {} THEN mainPanel ELSE flds[SetMin(hit)].panel

\* const idx = str.mpptIndex || 1
StringMppt(str) == IF str.mpptIndex = 0 THEN 1 ELSE str.mpptIndex

\* mpptGroups: the MPPT indexes in the order of Object.entries (ascending)
MpptGroupKeys(strings, stringsCountLegacy) ==
    IF strings = <<>>
    THEN [i \in 1..(IF stringsCountLegacy = 0 THEN 1 ELSE stringsCountLegacy) |-> i]
    ELSE SortedSeq({ StringMppt(strings[i]) : i \in 1..Len(strings) })

\* mpptGroups[idx]: the segments of one MPPT, in configuration order
MpptSegments(strings, idx, panelsPerStringLegacy) ==
    IF strings = <<>>
    THEN << [fieldId |-> 0, panelCount |-> panelsPerStringLegacy, mpptIndex |-> idx] >>
    ELSE SelectSeq(strings, LAMBDA str : StringMppt(str) = idx)

RECURSIVE ParallelByMppt(_, _, _)
\* parallelByMppt[mpptIndex] || 1 after the forEach over dcCablingRuns (the last run wins)
ParallelByMppt(runs, i, mpptIndex) ==
    IF i = 0 THEN 1
    ELSE IF runs[i].mpptIndex # 0 /\ runs[i].mpptIndex = mpptIndex
         THEN Max2(1, IF runs[i].parallelStrings = 0 THEN 1 ELSE runs[i].parallelStrings)
         ELSE ParallelByMppt(runs, i - 1, mpptIndex)

IscTotalWithMargin(mpptIscMax, parallelStrings) == IscTimes125(mpptIscMax * parallelStrings)

\* mpptIscTotal = mpptIscMax * parallelStrings, the current compared with maxInputCurrent
MpptIscTotal(mpptIscMax, parallelStrings) == mpptIscMax * parallelStrings

\* one iteration of the per-MPPT loop: the pushed analysis
MpptAnalysis(mpptIndex, segments, flds, mainPanel, iSpecs, tempMin, tempCellHot, runs) ==
    LET parallelStrings == ParallelByMppt(runs, Len(runs), mpptIndex)
        withSpecs == SelectSeq(segments, LAMBDA seg : SegmentPanel(seg, flds, mainPanel).hasElectrical)
        mpptVocCold == SumSeq([i \in 1..Len(withSpecs) |->
                          VocColdPanel(SegmentPanel(withSpecs[i], flds, mainPanel), tempMin)
                            * withSpecs[i].panelCount])
        mpptVmpHot == SumSeq([i \in 1..Len(withSpecs) |->
                          VmpHotPanel(SegmentPanel(withSpecs[i], flds, mainPanel), tempCellHot)
                            * withSpecs[i].panelCount])
        mpptIscMax == MaxSeq([i \in 1..Len(withSpecs) |->
                          SegmentPanel(withSpecs[i], flds, mainPanel).isc])
        mpptIscTotal == MpptIscTotal(mpptIscMax, parallelStrings)
    IN  [ mpptIndex       |-> mpptIndex,
          totalPanelCount |-> SumSeq([i \in 1..Len(segments) |-> segments[i].panelCount]),
          vocColdScaled   |-> mpptVocCold,
          vmpHotScaled    |-> mpptVmpHot,
          vocCold         |-> RoundScaled(mpptVocCold),
          vmpHot          |-> RoundScaled(mpptVmpHot),
          parallelStrings |-> parallelStrings,
          iscMax          |-> mpptIscTotal,
          iscCalculation  |-> IscTimes125(mpptIscTotal),
          isVoltageWarning |-> /\ mpptVocCold >= iSpecs.maxInputVoltage * 9500
                               /\ mpptVocCold <= iSpecs.maxInputVoltage * 10000,
          isVoltageError  |-> mpptVocCold > iSpecs.maxInputVoltage * 10000,
          isMpptError     |-> mpptVmpHot < iSpecs.minMpptVoltage * 10000,
          isMpptWarning   |-> /\ mpptVmpHot >= iSpecs.minMpptVoltage * 10000
                              /\ mpptVmpHot <= iSpecs.minMpptVoltage * 10500,
          isCurrentError  |-> mpptIscTotal > iSpecs.maxInputCurrent ]

\* the errors pushed by one iteration of the per-MPPT loop, in order
MpptErrors(a) ==
    (IF a.isVoltageError THEN << [kind |-> "Surtension", mpptIndex |-> a.mpptIndex] >> ELSE <<>>)
    \o (IF a.isMpptError THEN << [kind |-> "VmpTropBas", mpptIndex |-> a.mpptIndex] >> ELSE <<>>)
    \o (IF a.isCurrentError THEN << [kind |-> "CourantTropEleve", mpptIndex |-> a.mpptIndex] >> ELSE <<>>)

\* the warnings pushed by one iteration of the per-MPPT loop, in order
MpptWarnings(a, iSpecs) ==
    (IF /\ ~a.isVoltageError
        /\ iSpecs.maxInputVoltage > 0
        /\ a.vocColdScaled >= iSpecs.maxInputVoltage * 9500
     THEN << [kind |-> "VocProcheLimite", mpptIndex |-> a.mpptIndex] >> ELSE <<>>)
    \o (IF /\ ~a.isMpptError
           /\ (iSpecs.minMpptVoltage <= 0 \/ a.vmpHotScaled <= iSpecs.minMpptVoltage * 10500)
        THEN << [kind |-> "VmpProcheLimite", mpptIndex |-> a.mpptIndex] >> ELSE <<>>)

RECURSIVE FlattenSeq(_)
FlattenSeq(ss) == IF ss = <<>> THEN <<>> ELSE Head(ss) \o FlattenSeq(Tail(ss))

NoDetails ==
    [present |-> FALSE, stringsAnalysis |-> <<>>, recommendedBreaker |-> Null,
     nominalAcCurrent |-> Null, acCurrentBasis |-> "none"]

EmptyReport == [isNull |-> FALSE, isCompatible |-> TRUE, warnings |-> <<>>, errors |-> <<>>,
                details |-> NoDetails]

\* Math.ceil(nominalAcCurrent * 1.25) of the central branch; the data-sheet currents are in
\* tenths of an ampere, Null when the data sheet does not give them
RecommendedBreaker(iSpecs, inverterPower, isTri) ==
    LET maxAcPower == IF iSpecs.maxAcPower # 0 THEN iSpecs.maxAcPower ELSE inverterPower
    IN  IF iSpecs.maxAcCurrent # Null /\ iSpecs.maxAcCurrent > 0
        THEN (iSpecs.maxAcCurrent * 125 + 999) \div 1000
        ELSE IF iSpecs.nominalAcCurrent # Null /\ iSpecs.nominalAcCurrent > 0
        THEN (iSpecs.nominalAcCurrent * 125 + 999) \div 1000
        ELSE BreakerMinA(maxAcPower, isTri)

\* parseFloat((S / 230).toFixed(1)) and parseFloat((S / (400 * 1.732)).toFixed(1)), in
\* tenths of an ampere
FallbackAcCurrent(powerVA, isTri) ==
    IF powerVA <= 0 THEN 0
    ELSE IF isTri THEN (50 * powerVA + 1732) \div 3464
    ELSE (2 * powerVA + 23) \div 46

AcReferenceNominalFirst(iSpecs, inverterPower, isTri) ==
    LET maxAcPower == IF iSpecs.maxAcPower # 0 THEN iSpecs.maxAcPower ELSE inverterPower
    IN  IF iSpecs.nominalAcCurrent # Null /\ iSpecs.nominalAcCurrent > 0
        THEN [nominalAcCurrent |-> iSpecs.nominalAcCurrent, acCurrentBasis |-> "IAC_NOMINAL"]
        ELSE IF iSpecs.maxAcCurrent # Null /\ iSpecs.maxAcCurrent > 0
        THEN [nominalAcCurrent |-> iSpecs.maxAcCurrent, acCurrentBasis |-> "IAC_MAX"]
        ELSE [nominalAcCurrent |-> FallbackAcCurrent(maxAcPower, isTri),
              acCurrentBasis |-> "FALLBACK_S_OVER_U"]

\* acRefCurrentA and acCurrentBasis of the central branch, as reported in the details
\* (nominalAcCurrent in tenths of an ampere)
AcReference(iSpecs, inverterPower, isTri) ==
    LET maxAcPower == IF iSpecs.maxAcPower # 0 THEN iSpecs.maxAcPower ELSE inverterPower
    IN  IF iSpecs.maxAcCurrent # Null /\ iSpecs.maxAcCurrent > 0
        THEN [nominalAcCurrent |-> iSpecs.maxAcCurrent, acCurrentBasis |-> "IAC_MAX"]
        ELSE IF iSpecs.nominalAcCurrent # Null /\ iSpecs.nominalAcCurrent > 0
        THEN [nominalAcCurrent |-> iSpecs.nominalAcCurrent, acCurrentBasis |-> "IAC_NOMINAL"]
        ELSE [nominalAcCurrent |-> FallbackAcCurrent(maxAcPower, isTri),
              acCurrentBasis |-> "FALLBACK_S_OVER_U"]

\* totalSystemAcPower of the micro-inverter branch
MicroSystemAcPower(iSpecs, totalPanelsLegacy) ==
    LET inputsPerMicro == IF iSpecs.mpptCount # 0 THEN iSpecs.mpptCount ELSE 1
        numMicros == (totalPanelsLegacy + inputsPerMicro - 1) \div inputsPerMicro
    IN  IF totalPanelsLegacy > 0 THEN numMicros * iSpecs.maxAcPower ELSE iSpecs.maxAcPower

\* Math.ceil(recommendedBreaker) of the micro-inverter branch
RecommendedBreakerMicro(iSpecs, totalPanelsLegacy, isTri) ==
    LET inputsPerMicro == IF iSpecs.mpptCount # 0 THEN iSpecs.mpptCount ELSE 1
        numMicros == (totalPanelsLegacy + inputsPerMicro - 1) \div inputsPerMicro
        totalSystemAcPower == IF totalPanelsLegacy > 0 THEN numMicros * iSpecs.maxAcPower
                              ELSE iSpecs.maxAcPower
    IN  BreakerMinA(totalSystemAcPower, isTri)

checkElectricalCompatibility(mainPanel, inverter, climate, panelsPerStringLegacy, totalPanelsLegacy, stringsCountLegacy, strings, flds, ph, runs) ==
    LET iSpecs == inverter.electrical
        tempMin == climate.tempMin
        tempCellHot == climate.tempMaxAmb + 35
        isMicro == iSpecs.maxInputVoltage < 1000
        isTri == ph = "Tri"
    IN  IF ~inverter.present \/ ~inverter.hasElectrical THEN EmptyReport
        ELSE IF isMicro
        THEN IF ~mainPanel.hasElectrical THEN EmptyReport
             ELSE LET over == VocColdPanel(mainPanel, tempMin) > iSpecs.maxInputVoltage * 10000
                  IN  [ isNull |-> FALSE,
                        isCompatible |-> ~over,
                        warnings |-> <<>>,
                        errors |-> IF over THEN << [kind |-> "TensionPanneauMicro", mpptIndex |-> 0] >>
                                   ELSE <<>>,
                        details |-> [present |-> TRUE, stringsAnalysis |-> <<>>,
                                     recommendedBreaker |->
                                         RecommendedBreakerMicro(iSpecs, totalPanelsLegacy, isTri),
                                     nominalAcCurrent |-> FallbackAcCurrent(
                                         MicroSystemAcPower(iSpecs, totalPanelsLegacy), isTri),
                                     acCurrentBasis |-> "FALLBACK_S_OVER_U"] ]
        ELSE LET keys == MpptGroupKeys(strings, stringsCountLegacy)
                 mpptAnalyses == [k \in 1..Len(keys) |->
                     MpptAnalysis(keys[k], MpptSegments(strings, keys[k], panelsPerStringLegacy),
                                  flds, mainPanel, iSpecs, tempMin, tempCellHot, runs)]
                 errors == FlattenSeq([k \in 1..Len(keys) |-> MpptErrors(mpptAnalyses[k])])
             IN  [ isNull |-> FALSE,
                   isCompatible |-> errors = <<>>,
                   warnings |-> FlattenSeq([k \in 1..Len(keys) |-> MpptWarnings(mpptAnalyses[k], iSpecs)]),
                   errors |-> errors,
                   details |-> [present |-> TRUE, stringsAnalysis |-> mpptAnalyses,
                                recommendedBreaker |->
                                    RecommendedBreaker(iSpecs, inverter.power, isTri),
                                nominalAcCurrent |->
                                    AcReference(iSpecs, inverter.power, isTri).nominalAcCurrent,
                                acCurrentBasis |->
                                    AcReference(iSpecs, inverter.power, isTri).acCurrentBasis] ]

(***************************************************************************)
(* Application component (App): project data, derived values, the          *)
(* memoized compatibility report and the AC chain shown on screen.         *)
(***************************************************************************)

\* the panel of DEFAULT_PROJECT.fields[0] (DMEGC_PANELS[2]); new fields copy it
DefaultPanel ==
    [ power |-> 500, hasElectrical |-> TRUE, voc |-> 400, vmp |-> 330, isc |-> 1400,
      tempCoeffVoc |-> 0 - 26 ]

NoElectrical ==
    [ maxInputVoltage |-> 0, minMpptVoltage |-> 0, maxInputCurrent |-> 0, maxAcPower |-> 0,
      maxAcCurrent |-> Null, nominalAcCurrent |-> Null, mpptCount |-> 0, isMicro |-> FALSE ]

\* the value of a lookup that finds no component (null)
NoInverter ==
    [ present |-> FALSE, id |-> "", power |-> 0, hasElectrical |-> FALSE,
      electrical |-> NoElectrical ]

\* inverterDB['OND-PERSO'], the custom central inverter
GENERIC_INVERTER ==
    [ present |-> TRUE, id |-> "OND-PERSO", power |-> 5000, hasElectrical |-> TRUE,
      electrical |-> [ maxInputVoltage |-> 6000, minMpptVoltage |-> 1000,
                       maxInputCurrent |-> 1600, maxAcPower |-> 5000,
                       maxAcCurrent |-> Null, nominalAcCurrent |-> Null,
                       mpptCount |-> 2, isMicro |-> FALSE ] ]

\* the micro-inverter the 'Auto' branch of the report picks for the 'APS' prefix
APS_AUTO_CANDIDATE ==
    [ present |-> TRUE, id |-> "APS-DS3", power |-> 880, hasElectrical |-> TRUE,
      electrical |-> [ maxInputVoltage |-> 600, minMpptVoltage |-> 160,
                       maxInputCurrent |-> 2000, maxAcPower |-> 880,
                       maxAcCurrent |-> Null, nominalAcCurrent |-> Null,
                       mpptCount |-> 2, isMicro |-> TRUE ] ]

inverterDB == { GENERIC_INVERTER, APS_AUTO_CANDIDATE }

\* climate ? climate.tempMin : -10 and climate ? climate.tempMaxAmb : 35
projectClimate == [ tempMin |-> 0 - 10, tempMaxAmb |-> 35 ]

\* The project fields below are read from the project under evaluation: the project of
\* an export-gate evaluation when there is one, DEFAULT_PROJECT otherwise (the state
\* machine of the application has no action that edits them).

\* project.distanceToPanel (DEFAULT_PROJECT: 10)
distanceToPanel == IF call.fn = "gate" THEN call.distanceToPanel ELSE 10

\* project.distanceInverterToAcCoffret (DEFAULT_PROJECT: 2)
distanceInverterToAcCoffret ==
    IF call.fn = "gate" THEN call.distanceInverterToAcCoffret ELSE 2

\* project.acCableSectionMm2 (DEFAULT_PROJECT: null)
acCableSectionMm2 == IF call.fn = "gate" THEN call.acCableSectionMm2 ELSE Null

\* project.ac1CableSectionMm2 (DEFAULT_PROJECT: null)
ac1CableSectionMm2 == IF call.fn = "gate" THEN call.ac1CableSectionMm2 ELSE Null

\* project.inverterConfig.agcpValue (DEFAULT_PROJECT: undefined)
agcpValue == IF call.fn = "gate" THEN call.agcpValue ELSE Null

\* selectedAcCoffretA as BillOfMaterials reads it: the name is bound in the PdfReport
\* component only, so in BillOfMaterials `typeof selectedAcCoffretA` is 'undefined' and
\* the AC box branch of ac2BreakerRefA is never taken
selectedAcCoffretA == Null

\* variant: the grid size, whatever the row configuration
PanelCountOfGrid(panels) == panels.rows * panels.columns

\* rowConfiguration is an optional property: a record without it has it undefined
getPanelCount(panels) ==
    IF "rowConfiguration" \in DOMAIN panels /\ Len(panels.rowConfiguration) > 0
    THEN SumSeq(panels.rowConfiguration)
    ELSE panels.rows * panels.columns

\* project.fields.map(f => `${f.id}:${getPanelCount(f.panels)}`).join('|')
fieldsSignature(flds) == [i \in 1..Len(flds) |-> <<flds[i].id, getPanelCount(flds[i])>>]

totalPanelsCount(flds) == SumSeq([i \in 1..Len(flds) |-> getPanelCount(flds[i])])

totalPowerW(flds) == SumSeq([i \in 1..Len(flds) |-> flds[i].panel.power * getPanelCount(flds[i])])

\* Object.values(inverterDB).find(c => c.id === model)
\*   || (brand === CUSTOM ? inverterDB[model || 'OND-PERSO'] : null)
activeInverterComp(b, m) ==
    LET byId(id) == { c \in inverterDB : c.id = id }
    IN  IF byId(m) # {} THEN CHOOSE c \in byId(m) : TRUE
        ELSE IF b = "Custom"
        THEN LET key == IF m # "" THEN m ELSE "OND-PERSO"
             IN  IF byId(key) # {} THEN CHOOSE c \in byId(key) : TRUE ELSE NoInverter
        ELSE NoInverter

\* the condition of the rebalance effect: a central FoxESS or custom inverter with a model
RebalanceApplies(b, m) ==
    LET isMicro == activeInverterComp(b, m).electrical.isMicro
        isFoxCentral == b = "FoxESS" /\ ~isMicro
        isCustomCentral == b = "Custom" /\ ~isMicro
    IN  (isFoxCentral \/ isCustomCentral) /\ m # "" /\ m # "Auto"

StringsOfField(strings, fieldId) == SelectSeq(strings, LAMBDA str : str.fieldId = fieldId)

AssignedOfField(strings, fieldId) ==
    SumSeq([i \in 1..Len(StringsOfField(strings, fieldId)) |->
               StringsOfField(strings, fieldId)[i].panelCount])

TotalAssigned(strings) == SumSeq([i \in 1..Len(strings) |-> strings[i].panelCount])

(***************************************************************************)
(* String auto-rebalance (the effect on fieldsSignature, model, brand).    *)
(***************************************************************************)

\* currentStrings after the auto-creation of one string per field (strings were empty)
AutoCreateStrings(flds, maxMppts) ==
    [idx \in 1..Len(flds) |->
        [ fieldId |-> flds[idx].id,
          panelCount |-> getPanelCount(flds[idx]),
          mpptIndex |-> ((idx - 1) % maxMppts) + 1 ]]

ShrinkNothing(cur, fieldId, i, diff) == cur

RECURSIVE ShrinkField(_, _, _, _)
\* the backward loop over the strings of one field: remove diff panels, last string first
ShrinkField(cur, fieldId, i, diff) ==
    IF i = 0 \/ diff <= 0 THEN cur
    ELSE IF cur[i].fieldId # fieldId THEN ShrinkField(cur, fieldId, i - 1, diff)
    ELSE LET toRemove == Min2(cur[i].panelCount, diff)
         IN  ShrinkField([cur EXCEPT ![i].panelCount = @ - toRemove], fieldId, i - 1,
                         diff - toRemove)

\* the body of project.fields.forEach for one field
RebalanceField(cur, field) ==
    LET totalAvailable == getPanelCount(field)
        totalAssigned == AssignedOfField(cur, field.id)
        own == { i \in 1..Len(cur) : cur[i].fieldId = field.id }
    IN  IF totalAssigned > totalAvailable
        THEN ShrinkField(cur, field.id, Len(cur), totalAssigned - totalAvailable)
        ELSE IF Cardinality(own) = 1 /\ totalAssigned < totalAvailable
        THEN [cur EXCEPT ![CHOOSE i \in own : TRUE].panelCount = totalAvailable]
        ELSE cur

RECURSIVE RebalanceFields(_, _, _)
RebalanceFields(cur, flds, k) ==
    IF k > Len(flds) THEN cur
    ELSE RebalanceFields(RebalanceField(cur, flds[k]), flds, k + 1)

\* the configuredStrings the effect leaves (finalStrings when hasChanged, else unchanged)
RebalancedStrings(strings, flds, b, m) ==
    LET comp == activeInverterComp(b, m)
        maxMppts == IF comp.electrical.mpptCount # 0 THEN comp.electrical.mpptCount ELSE 2
        created == IF strings = <<>> THEN AutoCreateStrings(flds, maxMppts) ELSE strings
        validFieldIds == { flds[i].id : i \in 1..Len(flds) }
        filtered == SelectSeq(created, LAMBDA str : str.fieldId \in validFieldIds)
        balanced == RebalanceFields(filtered, flds, 1)
    IN  IF RebalanceApplies(b, m)
        THEN SelectSeq(balanced, LAMBDA str : str.panelCount > 0)
        ELSE strings

(***************************************************************************)
(* The memoized compatibility report.                                      *)
(***************************************************************************)

NullReport == [isNull |-> TRUE, isCompatible |-> FALSE, warnings |-> <<>>, errors |-> <<>>,
               details |-> NoDetails]

RepartitionReport ==
    [isNull |-> FALSE, isCompatible |-> FALSE, warnings |-> <<>>,
     errors |-> << [kind |-> "RepartitionIncorrecte", mpptIndex |-> 0] >>,
     details |-> NoDetails]

\* model?.includes('MICRO'); no model id of the modelled data base does
ModelIncludesMICRO(m) == m \in {"FOX-MICRO-1000", "FOX-MICRO-2000"}

\* model?.includes('2000')
ModelIncludes2000(m) == m \in {"FOX-MICRO-2000"}

\* (brand === 'FoxESS' && !model?.includes('MICRO')) || brand === 'Custom'
requiresStringConfig(b, m) == (b = "FoxESS" /\ ~ModelIncludesMICRO(m)) \/ b = "Custom"

\* the inverter the report is computed for (the 'Auto' branch picks a candidate by prefix)
ReportInverter(b, m) ==
    IF activeInverterComp(b, m).present THEN activeInverterComp(b, m)
    ELSE IF m = "Auto" /\ b # "FoxESS" /\ b # "Enphase" THEN APS_AUTO_CANDIDATE
    ELSE NoInverter

\* the body of the useMemo of compatibilityReport
ComputeCompatibilityReport(flds, strings, runs, b, m, ph) ==
    LET total == totalPanelsCount(flds)
        activeInverter == ReportInverter(b, m)
    IN  IF total = 0 THEN NullReport
        ELSE IF ~activeInverter.present THEN NullReport
        ELSE IF requiresStringConfig(b, m) /\ TotalAssigned(strings) # total
        THEN RepartitionReport
        ELSE checkElectricalCompatibility(flds[1].panel, activeInverter, projectClimate,
                                          total, total, 1, strings, flds, ph, runs)

(***************************************************************************)
(* The AC chain computed by the screen and handed to the bill of           *)
(* materials (AC1: inverter -> AC box, AC2: AC box -> panel board).        *)
(***************************************************************************)

isCentralInverter(b, m) ==
    /\ activeInverterComp(b, m).present
    /\ ~activeInverterComp(b, m).electrical.isMicro
    /\ b # "Enphase" /\ b # "APSystems"

inverterAcPowerVA(flds, b, m) ==
    LET comp == activeInverterComp(b, m)
    IN  IF isCentralInverter(b, m)
        THEN IF comp.electrical.maxAcPower # 0 THEN comp.electrical.maxAcPower
             ELSE IF comp.power # 0 THEN comp.power
             ELSE totalPowerW(flds)
        ELSE totalPowerW(flds)

\* the inline getAgcpCommercialBreakerA of the screen
getAgcpCommercialBreakerA(agcpA, isThreePhase) ==
    IF agcpA = Null \/ agcpA <= 0 THEN Null
    ELSE IF isThreePhase
         THEN IF agcpA <= 25 THEN 16
              ELSE IF agcpA <= 30 THEN 20
              ELSE IF agcpA <= 40 THEN 25
              ELSE IF agcpA <= 50 THEN 32
              ELSE 40
         ELSE IF agcpA <= 30 THEN 32
              ELSE IF agcpA <= 45 THEN 40
              ELSE 63

\* agcpBreakerA ?? normalizeBreaker(acBreakerMinA)
acBreakerNormalizedA(totalW, agcp, isThreePhase) ==
    LET agcpBreakerA == getAgcpCommercialBreakerA(agcp, isThreePhase)
    IN  IF agcpBreakerA # Null THEN agcpBreakerA
        ELSE normalizeBreaker(BreakerMinA(totalW, isThreePhase), isThreePhase)

\* normalizeBreakerA(Math.ceil(ac1CurrentMaxA * 1.25), isThreePhase)
ac1BreakerNormalizedA(acPowerVA, isThreePhase) ==
    normalizeBreakerA(BreakerMinA(acPowerVA, isThreePhase), isThreePhase)

\* pickAutoAc1Section: the two loops over every section of AC_SECTIONS
pickAutoAc1Section(acPowerVA, ac1LengthM, isThreePhase, ac1BreakerA) ==
    LET first == UiPass1(1, acPowerVA, ac1LengthM, isThreePhase, ac1BreakerA, AC_SECTIONS_MM2[1])
    IN  IF first # Null THEN first
        ELSE UiPass2(1, AC_SECTIONS_MM2[1], acPowerVA, ac1LengthM, isThreePhase, ac1BreakerA,
                     AC_SECTIONS_MM2[1])

\* project.ac1CableSectionMm2 ?? autoAc1CableSection
effectiveAc1CableSection(flds, b, m, ph) ==
    IF ac1CableSectionMm2 # Null THEN ac1CableSectionMm2
    ELSE pickAutoAc1Section(inverterAcPowerVA(flds, b, m), distanceInverterToAcCoffret,
                            ph = "Tri",
                            ac1BreakerNormalizedA(inverterAcPowerVA(flds, b, m), ph = "Tri"))

autoAcCableSectionRaw(flds, ph) ==
    pickAutoAcSection(totalPowerW(flds), distanceToPanel, ph = "Tri",
                      acBreakerNormalizedA(totalPowerW(flds), agcpValue, ph = "Tri"))

\* isCentralInverter ? Math.max(autoAcCableSectionRaw, effectiveAc1CableSection) : raw
autoAcCableSection(flds, b, m, ph) ==
    IF isCentralInverter(b, m)
    THEN Max2(autoAcCableSectionRaw(flds, ph), effectiveAc1CableSection(flds, b, m, ph))
    ELSE autoAcCableSectionRaw(flds, ph)

effectiveAcCableSection(flds, b, m, ph) ==
    IF isCentralInverter(b, m) /\ acCableSectionMm2 = Null
    THEN Max2(autoAcCableSection(flds, b, m, ph), effectiveAc1CableSection(flds, b, m, ph))
    ELSE IF acCableSectionMm2 # Null THEN acCableSectionMm2
    ELSE autoAcCableSectionRaw(flds, ph)

\* effectiveAc2SectionMm2 of the bill-of-materials effect: the forced section, else the
\* automatic one picked for the AC power of the inverter; calculateAcCableSection then
\* takes the smallest catalog section >= that value, which is the value itself
effectiveAc2SectionMm2(flds, b, m, ph) ==
    IF acCableSectionMm2 # Null THEN acCableSectionMm2
    ELSE pickAutoAc2SectionMm2(inverterAcPowerVA(flds, b, m), distanceToPanel, ph = "Tri",
             ac2BreakerNormalizedA(totalPowerW(flds), agcpValue, ph = "Tri"))

\* isCentralInverter && (effectiveAcCableSection < effectiveAc1CableSection)
acSectionOrderViolation(flds, b, m, ph) ==
    /\ isCentralInverter(b, m)
    /\ effectiveAcCableSection(flds, b, m, ph) < effectiveAc1CableSection(flds, b, m, ph)

\* getProtectionStatusForSection(effectiveAcCableSection, acBreakerNormalizedA)
acProtectionStatus(flds, b, m, ph) ==
    getProtectionStatusForSection(effectiveAcCableSection(flds, b, m, ph),
                                  acBreakerNormalizedA(totalPowerW(flds), agcpValue, ph = "Tri"))

acProtectionTooHigh(flds, b, m, ph) == acProtectionStatus(flds, b, m, ph) = "danger"

(***************************************************************************)
(* The export gate of the bill of materials (BillOfMaterials.canExport).   *)
(***************************************************************************)

isCompatible(report) == IF report.isNull THEN FALSE ELSE report.isCompatible

\* microBlockingErrors.length === 0; the modelled configurations have no micro branch
isMicroConfigOk == TRUE

\* variant: only the AC2 drop is compared with 3 %
VoltageDropOkAc2Only(flds, b, m, ph) ==
    calculateVoltageDropPercentLeq(3, totalPowerW(flds), distanceToPanel,
        effectiveAcCableSection(flds, b, m, ph), ph = "Tri")

isVoltageDropOk(flds, b, m, ph) ==
    LET okAc2 == calculateVoltageDropPercentLeq(3, totalPowerW(flds), distanceToPanel,
                     effectiveAcCableSection(flds, b, m, ph), ph = "Tri")
        okAc1 == IF isCentralInverter(b, m)
                 THEN calculateVoltageDropPercentLeq(3, inverterAcPowerVA(flds, b, m),
                          distanceInverterToAcCoffret,
                          effectiveAc1CableSection(flds, b, m, ph), ph = "Tri")
                 ELSE TRUE
    IN  okAc2 /\ okAc1

\* ac2BreakerRefA: AGCP first, then selectedAcCoffretA when it is a number, then the
\* theoretical minimum given by the report
ac2BreakerRefA(report, agcp, isThreePhase) ==
    LET acBreakerMinA == IF report.isNull THEN Null ELSE report.details.recommendedBreaker
    IN  IF agcp # Null /\ agcp > 0
        THEN agcpToCommercialBreakerA(agcp, isThreePhase)
        ELSE IF selectedAcCoffretA # Null /\ selectedAcCoffretA > 0
        THEN selectedAcCoffretA
        ELSE IF acBreakerMinA # Null /\ acBreakerMinA > 0
        THEN normalizeBreakerA(acBreakerMinA, isThreePhase)
        ELSE Null

isCableProtectionOk(report, flds, b, m, ph) ==
    LET refA == ac2BreakerRefA(report, agcpValue, ph = "Tri")
        ac1A == ac1BreakerNormalizedA(inverterAcPowerVA(flds, b, m), ph = "Tri")
        okAc2 == IF refA # Null /\ refA # 0
                 THEN ~isProtectionTooHighForSection(effectiveAcCableSection(flds, b, m, ph), refA)
                 ELSE TRUE
        okAc1 == IF isCentralInverter(b, m) /\ ac1A > 0
                 THEN ~isProtectionTooHighForSection(effectiveAc1CableSection(flds, b, m, ph), ac1A)
                 ELSE TRUE
    IN  okAc2 /\ okAc1

getMaxIdcForSection(section) ==
    CASE section = 25  -> 20
      [] section = 60  -> 32
      [] section = 100 -> 40
      [] section = 160 -> 63
      [] OTHER -> Null

\* idcA is in hundredths of an ampere
isDcCableTooSmallForI(section, idcA) ==
    LET max == getMaxIdcForSection(section)
    IN  IF max = Null THEN FALSE ELSE idcA > max * 100

\* runs.find(r => Number(r.mpptIndex) === mpptIndex)
FindRun(runs, mpptIndex) ==
    LET hit == { i \in 1..Len(runs) : runs[i].mpptIndex = mpptIndex }
    IN  IF hit = {} THEN [mpptIndex |-> mpptIndex, lengthM |-> 0, sectionMm2 |-> Null,
                          parallelStrings |-> 1]
        ELSE runs[SetMin(hit)]

\* effectiveS of the row of dcMpptDrops for one analysed MPPT: forcedS ?? autoS
dcMpptDropsEffectiveS(a, runs) ==
    LET run == FindRun(runs, IF a.mpptIndex = 0 THEN 1 ELSE a.mpptIndex)
        autoS == dcMpptDropsAutoS(run.lengthM, a.iscCalculation, a.vmpHot)
    IN  IF run.sectionMm2 # Null THEN run.sectionMm2 ELSE autoS

\* pickAutoDcSection(mpptIndex, lengthM) of the bill of materials: Isc x 1.25 of the panel
\* of the first field and Vmp x 0.88 x the panels of the MPPT, at least 1 V; current and
\* voltage are both passed 100 times larger, which leaves the drop percentage unchanged
pickAutoDcSection(flds, strings, mpptIndex, lengthM) ==
    LET panel == flds[1].panel
        isc == IF Len(flds) > 0 /\ panel.hasElectrical THEN panel.isc ELSE 0
        vmp == IF Len(flds) > 0 /\ panel.hasElectrical THEN panel.vmp ELSE 0
        onMppt == SelectSeq(strings, LAMBDA str : str.mpptIndex = mpptIndex)
        mpptPanels == SumSeq([i \in 1..Len(onMppt) |-> onMppt[i].panelCount])
    IN  pickAutoDcSectionOptionB(lengthM, isc * 125, Max2(1000, mpptPanels * vmp * 88))

\* effectiveS of one run in the bill of materials: r.sectionMm2 ?? pickAutoDcSection(...)
bomDcEffectiveS(flds, strings, r) ==
    IF r.sectionMm2 # Null THEN r.sectionMm2
    ELSE pickAutoDcSection(flds, strings, r.mpptIndex, r.lengthM)

\* lengthBySection[s] of the bill of materials after runs.forEach: the lengths of the runs
\* of positive length whose effective section is s
lengthBySection(flds, strings, runs, s) ==
    SumSeq([k \in 1..Len(runs) |->
               IF runs[k].lengthM > 0 /\ bomDcEffectiveS(flds, strings, runs[k]) = s
               THEN runs[k].lengthM ELSE 0])

\* the reasons one analysed MPPT adds in dcCablingValidation: none <=> TRUE
DcRunOk(a, runs) ==
    LET run == FindRun(runs, a.mpptIndex)
        L == run.lengthM
        I == a.iscCalculation
        V == IF a.vmpHot # 0 THEN a.vmpHot ELSE 10
        autoS == dcMpptDropsAutoS(L, I, V)
        effectiveS == IF run.sectionMm2 # Null THEN run.sectionMm2 ELSE autoS
    IN  IF a.mpptIndex = 0 THEN TRUE
        ELSE IF L <= 0 THEN FALSE
        ELSE /\ 46 * L * I <= 10 * 3 * effectiveS * V
             /\ ~(I > 0 /\ effectiveS # 0 /\ isDcCableTooSmallForI(effectiveS, I))

dcCablingValidationOk(report, runs) ==
    LET stringsAnalysis == IF report.isNull THEN <<>> ELSE report.details.stringsAnalysis
    IN  \A k \in 1..Len(stringsAnalysis) : DcRunOk(stringsAnalysis[k], runs)

\* variant: the order is checked on the automatic AC2 section, forced or not
AcOrderOkOnAutoSection(flds, b, m, ph) ==
    \/ ~isCentralInverter(b, m)
    \/ autoAcCableSection(flds, b, m, ph) >= effectiveAc1CableSection(flds, b, m, ph)

isAcOrderOk(flds, b, m, ph) ==
    \/ ~isCentralInverter(b, m)
    \/ effectiveAcCableSection(flds, b, m, ph) >= effectiveAc1CableSection(flds, b, m, ph)

canExport(report, flds, runs, b, m, ph) ==
    /\ isCompatible(report)
    /\ isMicroConfigOk
    /\ isVoltageDropOk(flds, b, m, ph)
    /\ isCableProtectionOk(report, flds, b, m, ph)
    /\ dcCablingValidationOk(report, runs)
    /\ isAcOrderOk(flds, b, m, ph)

(***************************************************************************)
(* The application as a state machine: the handlers of the screen and the  *)
(* rebalance effect.  A handler runs only once the effect scheduled by the *)
(* previous render has run.                                                *)
(***************************************************************************)

MaxFields == 2

MaxRows == 2

MaxStrings == 2

MaxStringSteps == 1

MaxRunSteps == 1

RowInputs == 1..MaxRows

ColumnInputs == {0, 5}

StringPanelInputs == { 5 * k : k \in 0..MaxStringSteps }

RunLengthInputs == { 10 * k : k \in 1..MaxRunSteps }

BrandInputs == {"None", "FoxESS", "Custom"}

PhaseInputs == {"Mono", "Tri"}

NoCall == [fn |-> "none"]

\* DEFAULT_PROJECT and the first render
AppInit ==
    /\ fields = << [id |-> 1, rows |-> 2, columns |-> 5, panel |-> DefaultPanel] >>
    /\ configuredStrings = <<>>
    /\ dcCablingRuns = <<>>
    /\ brand = "None"
    /\ model = "Auto"
    /\ phase = "Mono"
    /\ compatibilityReport =
           ComputeCompatibilityReport(fields, configuredStrings, dcCablingRuns, brand, model, phase)
    /\ rebalanceEffect = "idle"

Init == AppInit /\ call = NoCall /\ ret = NoCall

isMicroSystem(b, m) ==
    \/ b = "Enphase" \/ b = "APSystems"
    \/ (b = "Custom" /\ activeInverterComp("None", m).electrical.isMicro)
    \/ (b = "FoxESS" /\ (ModelIncludesMICRO(m) \/ m = "FOX-S3000-G2"))

\* the condition under which the screen shows the DC string configuration
StringUiShown ==
    /\ brand # "None"
    /\ requiresStringConfig(brand, model)
    /\ model # ""
    /\ ~isMicroSystem(brand, model)

maxMpptAvailable ==
    IF brand = "None" \/ model = "Auto" THEN 2
    ELSE IF activeInverterComp(brand, model).electrical.isMicro THEN 1
    ELSE IF activeInverterComp(brand, model).electrical.mpptCount # 0
         THEN activeInverterComp(brand, model).electrical.mpptCount
    ELSE 2

\* what a render does after a handler changed the project: the memo is recomputed and the
\* rebalance effect is scheduled when one of its dependencies changed
Render(flds, strings, runs, b, m, ph) ==
    /\ compatibilityReport' = ComputeCompatibilityReport(flds, strings, runs, b, m, ph)
    /\ rebalanceEffect' = IF fieldsSignature(flds) # fieldsSignature(fields) \/ m # model \/ b # brand
                          THEN "pending" ELSE "idle"

\* "+" of the field tabs: a new field copying the roof and panels of the first one
AddField ==
    /\ rebalanceEffect # "pending"
    /\ Len(fields) < MaxFields
    /\ LET used == { fields[i].id : i \in 1..Len(fields) }
           newId == SetMin((1..(MaxFields + 1)) \ used)
       IN  fields' = Append(fields, [fields[1] EXCEPT !.id = newId])
    /\ UNCHANGED <<configuredStrings, dcCablingRuns, brand, model, phase, call, ret>>
    /\ Render(fields', configuredStrings, dcCablingRuns, brand, model, phase)

\* "x" of a field tab (never shown on the first field)
RemoveField(i) ==
    /\ rebalanceEffect # "pending"
    /\ i > 1 /\ i <= Len(fields)
    /\ fields' = [k \in 1..(Len(fields) - 1) |-> IF k < i THEN fields[k] ELSE fields[k + 1]]
    /\ UNCHANGED <<configuredStrings, dcCablingRuns, brand, model, phase, call, ret>>
    /\ Render(fields', configuredStrings, dcCablingRuns, brand, model, phase)

\* the rows input of the active field
SetRows(i, v) ==
    /\ rebalanceEffect # "pending"
    /\ i \in 1..Len(fields)
    /\ fields' = [fields EXCEPT ![i].rows = v]
    /\ UNCHANGED <<configuredStrings, dcCablingRuns, brand, model, phase, call, ret>>
    /\ Render(fields', configuredStrings, dcCablingRuns, brand, model, phase)

\* the columns input of the active field
SetColumns(i, v) ==
    /\ rebalanceEffect # "pending"
    /\ i \in 1..Len(fields)
    /\ fields' = [fields EXCEPT ![i].columns = v]
    /\ UNCHANGED <<configuredStrings, dcCablingRuns, brand, model, phase, call, ret>>
    /\ Render(fields', configuredStrings, dcCablingRuns, brand, model, phase)

\* updateInverterConfig(updates) for updates that set the model, and possibly the brand and
\* the phase: the dependent sub-configurations are reset when the brand or the model changes
updateInverterConfig(newBrand, brandGiven, newModel, newPhase) ==
    LET brandChanged == brandGiven /\ newBrand # brand
        modelChanged == newModel # model
        b == IF brandGiven THEN newBrand ELSE brand
        m == IF brandGiven /\ newBrand = "Custom" /\ newModel = "" THEN "OND-PERSO" ELSE newModel
        reset == brandChanged \/ modelChanged
    IN  /\ brand' = b
        /\ model' = m
        /\ phase' = newPhase
        /\ configuredStrings' = IF reset THEN <<>> ELSE configuredStrings
        /\ dcCablingRuns' = IF reset THEN <<>> ELSE dcCablingRuns
        /\ UNCHANGED <<fields, call, ret>>
        /\ IF reset \/ m # model \/ newPhase # phase
           THEN Render(fields, configuredStrings', dcCablingRuns', b, m, newPhase)
           ELSE UNCHANGED compatibilityReport /\ rebalanceEffect' = "idle"

\* the brand select: updateInverterConfig({ brand, model: '' })
SelectBrand(b) ==
    /\ rebalanceEffect # "pending"
    /\ b # brand
    /\ updateInverterConfig(b, TRUE, "", phase)

\* the Mono / Tri buttons: updateInverterConfig({ phase, model: '' })
SelectPhase(ph) ==
    /\ rebalanceEffect # "pending"
    /\ updateInverterConfig(brand, FALSE, "", ph)

\* "+ Ajouter une source" of one MPPT: addSegmentToMppt(mpptIdx)
AddSegmentToMppt(mpptIdx) ==
    /\ rebalanceEffect # "pending"
    /\ StringUiShown
    /\ mpptIdx \in 1..maxMpptAvailable
    /\ Len(configuredStrings) < MaxStrings
    /\ configuredStrings' = Append(configuredStrings,
           [fieldId |-> fields[1].id, panelCount |-> 1, mpptIndex |-> mpptIdx])
    /\ UNCHANGED <<fields, dcCablingRuns, brand, model, phase, call, ret>>
    /\ Render(fields, configuredStrings', dcCablingRuns, brand, model, phase)

\* the field select of one segment: updateString(id, { fieldId })
UpdateStringField(i, fieldId) ==
    /\ rebalanceEffect # "pending"
    /\ StringUiShown
    /\ i \in 1..Len(configuredStrings)
    /\ fieldId \in { fields[k].id : k \in 1..Len(fields) }
    /\ configuredStrings' = [configuredStrings EXCEPT ![i].fieldId = fieldId]
    /\ UNCHANGED <<fields, dcCablingRuns, brand, model, phase, call, ret>>
    /\ Render(fields, configuredStrings', dcCablingRuns, brand, model, phase)

\* the quantity input of one segment: updateString(id, { panelCount: parseInt(value) || 0 })
UpdateStringPanelCount(i, n) ==
    /\ rebalanceEffect # "pending"
    /\ StringUiShown
    /\ i \in 1..Len(configuredStrings)
    /\ configuredStrings' = [configuredStrings EXCEPT ![i].panelCount = n]
    /\ UNCHANGED <<fields, dcCablingRuns, brand, model, phase, call, ret>>
    /\ Render(fields, configuredStrings', dcCablingRuns, brand, model, phase)

\* the delete button of one segment: removeString(id)
RemoveString(i) ==
    /\ rebalanceEffect # "pending"
    /\ StringUiShown
    /\ i \in 1..Len(configuredStrings)
    /\ configuredStrings' = [k \in 1..(Len(configuredStrings) - 1) |->
           IF k < i THEN configuredStrings[k] ELSE configuredStrings[k + 1]]
    /\ UNCHANGED <<fields, dcCablingRuns, brand, model, phase, call, ret>>
    /\ Render(fields, configuredStrings', dcCablingRuns, brand, model, phase)

\* the length input of the DC run of one MPPT; the report is not recomputed, dcCablingRuns
\* is not among the dependencies of its useMemo
SetRunLength(mpptIndex, lengthM) ==
    /\ rebalanceEffect # "pending"
    /\ ~isMicroSystem(brand, model)
    /\ \E i \in 1..Len(configuredStrings) : configuredStrings[i].mpptIndex = mpptIndex
    /\ LET existing == FindRun(dcCablingRuns, mpptIndex)
           others == SelectSeq(dcCablingRuns, LAMBDA r : r.mpptIndex # mpptIndex)
       IN  dcCablingRuns' = Append(others,
               [mpptIndex |-> mpptIndex, lengthM |-> lengthM,
                sectionMm2 |-> existing.sectionMm2,
                parallelStrings |-> existing.parallelStrings])
    /\ rebalanceEffect' = "idle"
    /\ UNCHANGED <<fields, configuredStrings, brand, model, phase, compatibilityReport, call, ret>>

\* the "Strings en //" checkbox of one MPPT card: the run of the MPPT is replaced by one
\* with the other parallel count (2 when checked, 1 when unchecked); the report is not
\* recomputed, dcCablingRuns is not among the dependencies of its useMemo
ToggleParallelStrings(currentMppt) ==
    /\ rebalanceEffect # "pending"
    /\ StringUiShown
    /\ currentMppt \in 1..maxMpptAvailable
    /\ LET existing == FindRun(dcCablingRuns, currentMppt)
           runs == SelectSeq(dcCablingRuns, LAMBDA r : r.mpptIndex # currentMppt)
           nextParallel == IF existing.parallelStrings > 1 THEN 1 ELSE 2
       IN  dcCablingRuns' = Append(runs,
               [mpptIndex |-> currentMppt, lengthM |-> existing.lengthM,
                sectionMm2 |-> existing.sectionMm2,
                parallelStrings |-> nextParallel])
    /\ rebalanceEffect' = "idle"
    /\ UNCHANGED <<fields, configuredStrings, brand, model, phase, compatibilityReport, call, ret>>

\* the rebalance effect scheduled by the last render
Rebalance ==
    /\ rebalanceEffect = "pending"
    /\ configuredStrings' = RebalancedStrings(configuredStrings, fields, brand, model)
    /\ compatibilityReport' =
           IF configuredStrings' # configuredStrings
           THEN ComputeCompatibilityReport(fields, configuredStrings', dcCablingRuns,
                                           brand, model, phase)
           ELSE compatibilityReport
    /\ rebalanceEffect' = "ran"
    /\ UNCHANGED <<fields, dcCablingRuns, brand, model, phase, call, ret>>

Next ==
    \/ AddField
    \/ \E i \in 1..MaxFields : RemoveField(i)
    \/ \E i \in 1..MaxFields, v \in RowInputs : SetRows(i, v)
    \/ \E i \in 1..MaxFields, v \in ColumnInputs : SetColumns(i, v)
    \/ \E b \in BrandInputs : SelectBrand(b)
    \/ \E ph \in PhaseInputs : SelectPhase(ph)
    \/ \E mpptIdx \in 1..2 : AddSegmentToMppt(mpptIdx)
    \/ \E i \in 1..MaxStrings, f \in 1..(MaxFields + 1) : UpdateStringField(i, f)
    \/ \E i \in 1..MaxStrings, n \in StringPanelInputs : UpdateStringPanelCount(i, n)
    \/ \E i \in 1..MaxStrings : RemoveString(i)
    \/ \E mpptIndex \in 1..2, lengthM \in RunLengthInputs : SetRunLength(mpptIndex, lengthM)
    \/ Rebalance

Spec == Init /\ [][Next]_vars

(***************************************************************************)
(* The DC side of a configured project: a Custom central inverter with the  *)
(* strings the rebalance effect created, then the handlers of the DC string *)
(* configuration cards (segments, run lengths, parallel strings) and the    *)
(* phase buttons.  None of them changes the fields, the brand or the model, *)
(* so the rebalance effect is never scheduled again.                        *)
(***************************************************************************)
InitDcRuns ==
    /\ fields = << [id |-> 1, rows |-> 2, columns |-> 5, panel |-> DefaultPanel] >>
    /\ brand = "Custom"
    /\ model = "OND-PERSO"
    /\ phase = "Mono"
    /\ configuredStrings = AutoCreateStrings(fields, 2)
    /\ dcCablingRuns = <<>>
    /\ compatibilityReport =
           ComputeCompatibilityReport(fields, configuredStrings, dcCablingRuns, brand, model, phase)
    /\ rebalanceEffect = "ran"
    /\ call = NoCall /\ ret = NoCall

NextDcRuns ==
    \/ \E ph \in PhaseInputs : SelectPhase(ph)
    \/ \E mpptIdx \in 1..2 : AddSegmentToMppt(mpptIdx)
    \/ \E i \in 1..MaxStrings, n \in StringPanelInputs : UpdateStringPanelCount(i, n)
    \/ \E i \in 1..MaxStrings : RemoveString(i)
    \/ \E mpptIndex \in 1..2, lengthM \in RunLengthInputs : SetRunLength(mpptIndex, lengthM)
    \/ \E currentMppt \in 1..2 : ToggleParallelStrings(currentMppt)

SpecDcRuns == InitDcRuns /\ [][NextDcRuns]_vars

(***************************************************************************)
(* Evaluations of the sizing helpers: one call, drawn from bounded input   *)
(* sets, and its result.                                                   *)
(***************************************************************************)

MaxRatingA == 85

MaxPowerSteps == 8

MaxLengthSteps == 8

MaxDcLengthSteps == 8

MaxParallel == 2

MaxCompatStrings == 2

CatalogSections == SeqToSet(AC_SECTIONS_MM2)

\* the catalog sections and three sections absent from the tables
SectionInputs == CatalogSections \cup {15, 40, 350}

RatingInputs == 0..MaxRatingA

MinRatingInputs == (0 - 2)..MaxRatingA

PowerInputs == { 1500 * k : k \in 0..MaxPowerSteps }

LengthInputs == { 5 * k : k \in 0..MaxLengthSteps }

BreakerInputs == {0, 16, 20, 25, 32, 40, 63, 80, 100}

FloorInputs == CatalogSections

AgcpInputs == {Null, 0, 15, 25, 30, 40, 45, 50, 60}

DcLengthInputs == {0 - 5} \cup { 20 * k : k \in 0..MaxDcLengthSteps }

DcCurrentInputs == {0 - 100, 0, 875, 1200, 1750, 3500}

DcVoltageInputs == {0 - 10, 0, 291, 1457, 6000}

\* a second panel, for strings that mix two fields
SecondPanel ==
    [ power |-> 400, hasElectrical |-> TRUE, voc |-> 500, vmp |-> 420, isc |-> 700,
      tempCoeffVoc |-> 0 - 30 ]

CompatFields ==
    << [id |-> 1, rows |-> 2, columns |-> 5, panel |-> DefaultPanel],
       [id |-> 2, rows |-> 2, columns |-> 5, panel |-> SecondPanel] >>

CompatPanelInputs == {1, 5, 10, 15}

CompatStringInputs ==
    [fieldId : {1, 2}, panelCount : CompatPanelInputs, mpptIndex : {1, 2}]

CompatStringsInputs ==
    UNION { [1..n -> CompatStringInputs] : n \in 0..MaxCompatStrings }

CompatRun(mpptIndex, n) ==
    [mpptIndex |-> mpptIndex, lengthM |-> 10, sectionMm2 |-> Null, parallelStrings |-> n]

CompatRunsInputs ==
    {<<>>} \cup { <<CompatRun(1, n)>> : n \in 1..MaxParallel }
           \cup { <<CompatRun(1, n), CompatRun(2, k)>> : n \in 1..MaxParallel, k \in 1..MaxParallel }

\* data sheets of central inverters: AC currents in tenths of an ampere, absent or given
AcCurrentInputs == {Null, 0, 217, 300}

AcPowerInputs == {0, 3000, 5000, 8000, 10000}

\* the custom inverter with another AC data sheet
AcRefInverter(maxAcCurrent, nominalAcCurrent, maxAcPower, power) ==
    [GENERIC_INVERTER EXCEPT !.power = power,
                             !.electrical.maxAcCurrent = maxAcCurrent,
                             !.electrical.nominalAcCurrent = nominalAcCurrent,
                             !.electrical.maxAcPower = maxAcPower]

(***************************************************************************)
(* The bill of materials: catalogs and mergeCableCoilsInBOM.  A description *)
(* is held as the sequence of its parts, the string being the parts joined  *)
(* by " / "; the empty string is the empty sequence.                        *)
(***************************************************************************)

\* the ids of DEFAULT_CABLES whose description holds "CABLE" once in upper case
CableDbCableIds == {"81010312509205", "810103100609205", "821101000609200"}

\* the ids of DEFAULT_CABLES whose description does not ('Câble Solaire DC ...')
CableDbOtherIds == {"CABLE-DC-10MM"}

\* /^\d{8,}$/.test(id)
IsLongNumericId(id) ==
    id \in {"81010312509205", "810103100609205", "821101000609200", "2322304903",
            "81010312509200", "810103101009205", "810103101009200", "810103101609207",
            "81010512509205", "81010512509200", "810105100609205", "821101000609400"}

\* id.startsWith("CABLE-")
StartsWithCable(id) ==
    id \in {"CABLE-DC-10MM", "CABLE-PERSO", "CABLE-R2V-5G10-MANUEL", "CABLE-DC-10MM-MANUEL"}

isCable(it) ==
    IF it.id \in CableDbCableIds THEN TRUE
    ELSE IF it.id \in CableDbOtherIds THEN FALSE
    ELSE IsLongNumericId(it.id) \/ StartsWithCable(it.id)

\* quantity || 1
QuantityOrOne(q) == IF q = 0 THEN 1 ELSE q

\* Math.max(existing.quantity || 1, it.quantity || 1)
MergedQuantity(existingQuantity, quantity) ==
    Max2(QuantityOrOne(existingQuantity), QuantityOrOne(quantity))

\* _reasons.add(description): a Set keeps its members in insertion order
AddReason(reasons, description) ==
    IF description \in SeqToSet(reasons) THEN reasons ELSE Append(reasons, description)

\* Array.from(_reasons).filter(Boolean).join(" / ")
JoinReasons(reasons) == FlattenSeq(SelectSeq(reasons, LAMBDA r : r # <<>>))

\* byId.get(it.id): the index of the entry of that key, 0 when there is none
ExistingEntry(byId, id) ==
    LET hit == { e \in 1..Len(byId) : ~byId[e].artificial /\ byId[e].id = id }
    IN  IF hit = {} THEN 0 ELSE SetMin(hit)

\* byId.get(key) for the key `__${Math.random()}` of a line that is not a cable: the
\* index of the entry that drew the same value, 0 when there is none
ExistingRandomKey(byId, key) ==
    LET hit == { e \in 1..Len(byId) : byId[e].artificial /\ byId[e].key = key }
    IN  IF hit = {} THEN 0 ELSE SetMin(hit)

RECURSIVE MergeLoop(_, _, _, _)
\* for (const it of items): byId is the Map, in insertion order; rnd[k] is the value
\* Math.random() returns for the k-th line.  Map.set on a key already present replaces
\* the value and keeps the position.
MergeLoop(items, rnd, k, byId) ==
    IF k > Len(items) THEN byId
    ELSE LET it == items[k]
             e == ExistingEntry(byId, it.id)
             same == ExistingRandomKey(byId, rnd[k])
             copy == [artificial |-> TRUE, key |-> rnd[k], id |-> it.id,
                      description |-> it.description,
                      quantity |-> it.quantity, reasons |-> <<>>]
         IN  IF ~isCable(it)
             THEN MergeLoop(items, rnd, k + 1,
                      IF same = 0 THEN Append(byId, copy)
                      ELSE [byId EXCEPT ![same] = copy])
             ELSE IF e = 0
             THEN MergeLoop(items, rnd, k + 1,
                      Append(byId, [artificial |-> FALSE, key |-> 0, id |-> it.id,
                                    description |-> it.description,
                                    quantity |-> it.quantity,
                                    reasons |-> <<it.description>>]))
             ELSE LET reasons == AddReason(byId[e].reasons, it.description)
                  IN  MergeLoop(items, rnd, k + 1,
                          [byId EXCEPT ![e] =
                              [artificial |-> FALSE, key |-> 0, id |-> it.id,
                               description |-> JoinReasons(reasons),
                               quantity |-> MergedQuantity(byId[e].quantity, it.quantity),
                               reasons |-> reasons]])

\* byId.entries(): the keys in insertion order
MergedEntries(byId) == byId

mergeCableCoilsInBOM(items, rnd) ==
    LET byId == MergedEntries(MergeLoop(items, rnd, 1, <<>>))
    IN  [e \in 1..Len(byId) |->
            [id |-> byId[e].id, description |-> byId[e].description,
             quantity |-> byId[e].quantity]]

\* Math.ceil(a / b) for positive integers
CeilDiv(a, b) == (a + b - 1) \div b

\* coilOptions of calculateAcCableSection for the selected section, sorted by reel length
coilOptions(selectedSection, isThreePhase) ==
    IF isThreePhase
    THEN IF selectedSection <= 25
         THEN << [id |-> "81010512509205", coilM |-> 50], [id |-> "81010512509200", coilM |-> 100] >>
         ELSE IF selectedSection <= 60 THEN << [id |-> "810105100609205", coilM |-> 50] >>
         ELSE <<>>
    ELSE IF selectedSection <= 25
         THEN << [id |-> "81010312509205", coilM |-> 50], [id |-> "81010312509200", coilM |-> 100] >>
         ELSE IF selectedSection <= 60 THEN << [id |-> "810103100609205", coilM |-> 50] >>
         ELSE IF selectedSection <= 100
         THEN << [id |-> "810103101009205", coilM |-> 50], [id |-> "810103101009200", coilM |-> 100] >>
         ELSE IF selectedSection <= 160 THEN << [id |-> "810103101609207", coilM |-> 500] >>
         ELSE <<>>

\* the smallest reel that covers the length, else the largest one
pickCoil(opts, distanceMeters) ==
    LET covering == { i \in 1..Len(opts) : distanceMeters <= opts[i].coilM }
    IN  IF covering # {} THEN opts[SetMin(covering)] ELSE opts[Len(opts)]

\* calculateAcCableSection with a forced section among the offered ones (the bill of
\* materials always passes the effective section): no line for a power or a length <= 0,
\* else one line of max(1, ceil(distance / reel length)) reels; the 5G10 cable has no reel
calculateAcCableSection(totalPowerWp, distanceMeters, isThreePhase, forcedSectionMm2, label) ==
    LET selectedSection ==
            AC_SECTIONS_MM2[SetMin({ i \in 1..Len(AC_SECTIONS_MM2) :
                                        AC_SECTIONS_MM2[i] >= forcedSectionMm2 })]
        opts == coilOptions(selectedSection, isThreePhase)
        chosen == IF opts # <<>> THEN pickCoil(opts, distanceMeters)
                  ELSE [id |-> "CABLE-R2V-5G10-MANUEL", coilM |-> 50]
    IN  IF totalPowerWp <= 0 \/ distanceMeters <= 0 THEN <<>>
        ELSE << [id |-> chosen.id, description |-> <<label>>,
                 quantity |-> Max2(1, CeilDiv(distanceMeters, chosen.coilM))] >>

\* the DC cable lines of the bill of materials for the total length of one section: a red
\* and a black reel line of 100 m reels for 6 mm2, one line to be priced otherwise
DcCableLines(s, L) ==
    IF L <= 0 THEN <<>>
    ELSE IF s = 60
    THEN << [id |-> "821101000609400", description |-> <<"DC">>,
             quantity |-> Max2(1, CeilDiv(L, 100))],
            [id |-> "821101000609200", description |-> <<"DC">>,
             quantity |-> Max2(1, CeilDiv(L, 100))] >>
    ELSE << [id |-> "CABLE-DC-10MM-MANUEL", description |-> <<"DC">>, quantity |-> 1] >>

\* the length of the reel of each cable reference sold in reels
ReelLengthM ==
    [ id \in {"81010312509205", "810103100609205", "810103101009205", "81010512509205",
              "810105100609205"} |-> 50 ]
    @@ [ id \in {"81010312509200", "810103101009200", "81010512509200", "821101000609400",
                 "821101000609200"} |-> 100 ]
    @@ [ id \in {"810103101609207"} |-> 500 ]

\* the cable lines of a centralized system: AC1, AC2, then the DC runs of one section
BomCableLines(powerVA, isThreePhase, ac1LengthM, ac1Section, ac2LengthM, ac2Section, dcSection, dcLengthM) ==
    calculateAcCableSection(powerVA, ac1LengthM, isThreePhase, ac1Section, "AC1")
        \o calculateAcCableSection(powerVA, ac2LengthM, isThreePhase, ac2Section, "AC2")
        \o DcCableLines(dcSection, dcLengthM)

CableLengthInputs == {0, 30, 60, 120}

CableSectionInputs == {25, 60, 100}

\* numMicros of the system AC power of the bill of materials effect: the panels of all
\* fields divided by the inputs of one micro-inverter, rounded up
numMicros(b, m, fieldPanels) ==
    LET divisor == IF b = "FoxESS" /\ ModelIncludes2000(m) THEN 4
                   ELSE IF b = "FoxESS" \/ b = "APSystems" THEN 2
                   ELSE 1
    IN  CeilDiv(SumSeq(fieldPanels), divisor)

\* the quantity of the micro-inverter line calculateMicroInverters returns for one field
MicroQuantityOfField(b, m, totalPanels) ==
    IF totalPanels = 0 THEN 0
    ELSE IF b = "Enphase" THEN totalPanels
    ELSE IF b = "APSystems" THEN CeilDiv(totalPanels, 2)
    ELSE IF b = "FoxESS" /\ ModelIncludesMICRO(m)
    THEN CeilDiv(totalPanels, IF ModelIncludes2000(m) THEN 4 ELSE 2)
    ELSE 0

\* the micro-inverter line of the bill of materials: the lines of the fields that hold
\* panels, merged by id with existing.quantity += item.quantity
BomMicroQuantity(b, m, fieldPanels) ==
    SumSeq([f \in 1..Len(fieldPanels) |-> MicroQuantityOfField(b, m, fieldPanels[f])])

MaxFieldPanels == 4

MicroModelInputs ==
    { <<"Enphase", "ENP-IQ8MC-72-M-INT">>, <<"APSystems", "APS-DS3">>,
      <<"FoxESS", "FOX-MICRO-1000">>, <<"FoxESS", "FOX-MICRO-2000">> }

FieldPanelsInputs == UNION { [1..n -> 0..MaxFieldPanels] : n \in 1..MaxFields }

\* The values Math.random() can return: finitely many, MaxRandom of them here; one
\* draw per line of a list of at most MaxItems lines.  Only the equality of two draws of
\* one evaluation matters, so the values are named in the order of their first draw.
MaxRandom == 2

MaxItems == 3

RandomDraws ==
    { rnd \in [1..MaxItems -> 1..MaxRandom] :
          /\ rnd[1] = 1
          /\ \A k \in 2..MaxItems : \E j \in 1..(k - 1) : rnd[k] <= rnd[j] + 1 }

\* Lists of lines handed to the merge.
BomItemInputs ==
    { [id |-> "81010312509205", description |-> <<"AC1">>, quantity |-> 1],
      [id |-> "81010312509205", description |-> <<"AC2">>, quantity |-> 2],
      [id |-> "2322304903", description |-> <<>>, quantity |-> 1],
      [id |-> "CABLE-PERSO", description |-> <<"AC1">>, quantity |-> 2],
      [id |-> "CABLE-DC-10MM", description |-> <<"AC1">>, quantity |-> 1],
      [id |-> "13416", description |-> <<"AC1">>, quantity |-> 2] }

BomItemsInputs == UNION { [1..n -> BomItemInputs] : n \in 1..MaxItems }

(***************************************************************************)
(* The lines the bill-of-materials effect adds for a central Custom         *)
(* inverter without battery or backup: inverter, EV charger and its         *)
(* protections, AC box, DC box, AGCP head breaker.  A catalog is held as    *)
(* the set of the ids it has an entry for.                                  *)
(***************************************************************************)

\* the line made of a catalog entry
CatalogLine(id) == [id |-> id, description |-> "catalog", price |-> "catalog"]

getMaterialFromDB(db, searchId, fallbackDesc) ==
    IF searchId \in db THEN CatalogLine(searchId)
    ELSE [id |-> searchId, description |-> fallbackDesc, price |-> ""]

\* calculateCentralInverter, brand Custom, model OND-PERSO
calculateCentralInverter(inverterDb) ==
    << getMaterialFromDB(inverterDb, "OND-PERSO", "Onduleur Personnalise") >>

\* db[id] || { id, description, price }: a literal line when the catalog has no entry
CatalogOrLiteral(db, id, description, price) ==
    IF id \in db THEN CatalogLine(id)
    ELSE [id |-> id, description |-> description, price |-> price]

\* if (project.evCharger && project.evCharger.selected) { ... }, brand other than FoxESS
\* and no cableRef
EvChargerLines(evCharger, inverterDb, boxDb) ==
    LET chargerId == IF evCharger = "Tri" THEN "A022KS1-E-A" ELSE "A7300S1-E-2"
        charger == IF chargerId \in inverterDb THEN << CatalogLine(chargerId) >> ELSE <<>>
    IN  IF evCharger = "none" THEN <<>>
        ELSE IF evCharger = "Mono"
        THEN charger \o
             << CatalogOrLiteral(boxDb, "03140", "Disjoncteur Diff mono 40A/30mA Type F 10kA",
                                 "A4YC28"),
                CatalogOrLiteral(inverterDb, "DDSU666", "COMPTEUR MONO CHINT DDSU666", "A2R4G3") >>
        ELSE charger \o
             << CatalogOrLiteral(boxDb, "02056", "Disjoncteur 4x40 A C6 kA", "A4YSY3"),
                CatalogOrLiteral(boxDb, "03446", "Inter Diff Tri 40A/30mA Type F", "A4YC44"),
                CatalogOrLiteral(inverterDb, "DTSU666", "COMPTEUR TRI CHINT DTSU666", "A4C248") >>

\* acBoxId of the FoxESS / Custom branch without backup nor battery;
\* requiredBreakerRating = 1.25 x S / 230, or 1.25 x S / (400 x 1.732)
SelectAcBoxId(systemTotalAcPowerVA, isThreePhase) ==
    IF isThreePhase
    THEN IF 125 * systemTotalAcPowerVA <= 16 * 69280 THEN "13474" ELSE "13476"
    ELSE IF 125 * systemTotalAcPowerVA <= 20 * 23000 THEN "13412"
         ELSE IF 125 * systemTotalAcPowerVA <= 32 * 23000 THEN "13416"
         ELSE IF 125 * systemTotalAcPowerVA <= 40 * 23000 THEN "13418"
         ELSE "13446"

\* dcBoxId for a two-MPPT inverter without battery nor backup; it stays '' when the
\* active inverter is not found in the inverter catalog
SelectDcBoxId(use1000V, inverterDb) ==
    IF "OND-PERSO" \notin inverterDb THEN ""
    ELSE IF use1000V THEN "12272" ELSE "12232"

\* if (acBoxId && boxDB[acBoxId]) globalBOM.push(...), and the same for dcBoxId
BoxLines(boxDb, boxId) ==
    IF boxId # "" /\ boxId \in boxDb THEN << CatalogLine(boxId) >> ELSE <<>>

SelectDisjId(agcp, isThreePhase) ==
    IF isThreePhase
    THEN IF agcp <= 25 THEN "02048"
         ELSE IF agcp <= 30 THEN "02050"
         ELSE IF agcp <= 40 THEN "02052"
         ELSE IF agcp <= 50 THEN "02054"
         ELSE "02056"
    ELSE IF agcp <= 30 THEN "02018"
         ELSE IF agcp <= 45 THEN "02020"
         ELSE "02024"

\* if (agcpValue && agcpValue > 0) { const disjComp = boxDB[disjId]; if (disjComp) push }
AgcpBreakerLines(boxDb, agcp, isThreePhase) ==
    IF agcp = Null \/ agcp <= 0 THEN <<>>
    ELSE BoxLines(boxDb, SelectDisjId(agcp, isThreePhase))

BomEquipmentLines(systemTotalAcPowerVA, isThreePhase, agcp, evCharger, use1000V, inverterDb, boxDb) ==
    calculateCentralInverter(inverterDb)
        \o EvChargerLines(evCharger, inverterDb, boxDb)
        \o BoxLines(boxDb, SelectAcBoxId(systemTotalAcPowerVA, isThreePhase))
        \o BoxLines(boxDb, SelectDcBoxId(use1000V, inverterDb))
        \o AgcpBreakerLines(boxDb, agcp, isThreePhase)

\* groupMaterialsByCategory: the breakers and residual-current devices of the bill of
\* materials; their designation holds 'disjoncteur' or 'inter diff', which puts them in
\* the group 'Electricite'
BreakerOrRcdIds ==
    {"02018", "02020", "02024", "02048", "02050", "02052", "02054", "02056", "03140", "03446"}

evHardwareIds == {"A7300S1-E-2", "A022KS1-E-A", "15254", "15264"}

hasEvHardware(materials) ==
    \E k \in 1..Len(materials) : materials[k].id \in evHardwareIds

evProtectionIds(materials) ==
    IF hasEvHardware(materials) THEN {"02056", "03446", "03140"} ELSE {}

\* desc.includes('borne recharge') || desc.includes('cordon ve')
DescriptionMentionsEv(description) == description \in {"borne recharge", "cordon ve"}

isEv(materials, item) ==
    \/ item.id \in evHardwareIds
    \/ item.id \in evProtectionIds(materials)
    \/ DescriptionMentionsEv(item.description)

\* the positions of the breakers and residual-current devices listed under 'BORNE VE'
evElec(materials) ==
    { k \in 1..Len(materials) :
          materials[k].id \in BreakerOrRcdIds /\ isEv(materials, materials[k]) }

\* the positions of the breakers and residual-current devices of the general list
generalElec(materials) ==
    { k \in 1..Len(materials) :
          materials[k].id \in BreakerOrRcdIds /\ ~isEv(materials, materials[k]) }

\* updateInverterConfig as a function of the previous project and of the updates; a field
\* the updates do not hold is absent from the record.  Variant: a reset keeps the DC runs.
newConfigKeepingRuns(prev, updates) ==
    LET Given(f) == f \in DOMAIN updates
        Merged(f) == IF Given(f) THEN updates[f] ELSE prev[f]
        brandChanged == Given("brand") /\ updates.brand # prev.brand
        modelChanged == Given("model") /\ updates.model # prev.model
        reset == brandChanged \/ modelChanged
    IN  [ brand |-> Merged("brand"),
          model |-> IF Given("brand") /\ updates.brand = "Custom" /\ Merged("model") = ""
                    THEN "OND-PERSO" ELSE Merged("model"),
          phase |-> Merged("phase"),
          hasBackup |-> Merged("hasBackup"),
          hasBattery |-> IF Given("hasBackup") /\ updates.hasBackup /\ ~prev.hasBattery
                         THEN TRUE ELSE Merged("hasBattery"),
          configuredStrings |-> IF reset THEN <<>> ELSE Merged("configuredStrings"),
          stringsCount |-> IF reset THEN 1 ELSE prev.stringsCount,
          microBranches |-> IF reset THEN <<>> ELSE Merged("microBranches"),
          dcCablingRuns |-> prev.dcCablingRuns,
          evCharger |-> IF Given("phase") /\ updates.phase = "Mono"
                               /\ prev.evCharger.phase = "Tri"
                        THEN [phase |-> "Mono",
                              cableRef |-> IF prev.evCharger.cableRef # ""
                                           THEN "15254" ELSE ""]
                        ELSE prev.evCharger ]

newConfig(prev, updates) ==
    LET Given(f) == f \in DOMAIN updates
        Merged(f) == IF Given(f) THEN updates[f] ELSE prev[f]
        brandChanged == Given("brand") /\ updates.brand # prev.brand
        modelChanged == Given("model") /\ updates.model # prev.model
        reset == brandChanged \/ modelChanged
    IN  [ brand |-> Merged("brand"),
          model |-> IF Given("brand") /\ updates.brand = "Custom" /\ Merged("model") = ""
                    THEN "OND-PERSO" ELSE Merged("model"),
          phase |-> Merged("phase"),
          hasBackup |-> Merged("hasBackup"),
          hasBattery |-> IF Given("hasBackup") /\ updates.hasBackup /\ ~prev.hasBattery
                         THEN TRUE ELSE Merged("hasBattery"),
          configuredStrings |-> IF reset THEN <<>> ELSE Merged("configuredStrings"),
          stringsCount |-> IF reset THEN 1 ELSE prev.stringsCount,
          microBranches |-> IF reset THEN <<>> ELSE Merged("microBranches"),
          dcCablingRuns |-> IF reset THEN <<>> ELSE prev.dcCablingRuns,
          evCharger |-> IF Given("phase") /\ updates.phase = "Mono"
                               /\ prev.evCharger.phase = "Tri"
                        THEN [phase |-> "Mono",
                              cableRef |-> IF prev.evCharger.cableRef # ""
                                           THEN "15254" ELSE ""]
                        ELSE prev.evCharger ]

ConfigModelInputs == {"", "OND-PERSO", "FOX-H1"}

ConfigStringsInputs == { <<>>, << [fieldId |-> 1, panelCount |-> 5, mpptIndex |-> 1] >> }

ConfigRunsInputs ==
    { <<>>, << [mpptIndex |-> 1, lengthM |-> 10, sectionMm2 |-> Null, parallelStrings |-> 1] >> }

ConfigBranchesInputs == { <<>>, << [microCount |-> 4, lengthM |-> 10, sectionMm2 |-> 25] >> }

ConfigEvChargerInputs ==
    { [phase |-> "Mono", cableRef |-> ""], [phase |-> "Tri", cableRef |-> "15264"] }

\* the inverter configurations an update is applied to
PrevConfigInputs ==
    { c \in [ brand : BrandInputs, model : ConfigModelInputs, phase : PhaseInputs,
              hasBackup : BOOLEAN, hasBattery : BOOLEAN,
              configuredStrings : ConfigStringsInputs, stringsCount : {2},
              microBranches : ConfigBranchesInputs, dcCablingRuns : ConfigRunsInputs,
              evCharger : ConfigEvChargerInputs ] :
          /\ c.brand = "None" => c.model = ""
          /\ c.brand = "Custom" => c.model \in {"", "OND-PERSO"}
          /\ c.brand = "FoxESS" => c.model \in {"", "FOX-H1"} }

\* the updates the handlers of the page pass: the brand select (a change of value), the
\* model select (a change of value), the custom inverter dialog, the Mono / Tri buttons,
\* the battery and backup checkboxes, the string handlers and the micro branch editor
UpdatesInputs(prev) ==
    { [brand |-> b, model |-> ""] : b \in BrandInputs \ {prev.brand} }
    \cup { [model |-> m] :
               m \in IF prev.brand = "FoxESS" THEN {"", "FOX-H1"} \ {prev.model} ELSE {} }
    \cup { [brand |-> "Custom", model |-> "OND-PERSO", phase |-> ph] :
               ph \in IF prev.brand = "Custom" THEN PhaseInputs ELSE {} }
    \cup { [phase |-> ph, model |-> ""] : ph \in PhaseInputs }
    \cup { [hasBattery |-> v] : v \in BOOLEAN }
    \cup { [hasBackup |-> v] : v \in BOOLEAN }
    \cup { [configuredStrings |-> v] : v \in ConfigStringsInputs }
    \cup { [microBranches |-> v] : v \in ConfigBranchesInputs }

\* the ids the effect looks up in the box catalog and in the inverter catalog
DefaultBoxDbIds ==
    {"13412", "13416", "13418", "13446", "13474", "13476", "12232", "12272",
     "02018", "02020", "02024", "02048", "02050", "02052", "02054", "02056",
     "03140", "03446"}

DefaultInverterDbIds == {"OND-PERSO", "A7300S1-E-2", "A022KS1-E-A", "DDSU666", "DTSU666"}

\* catalogs as edited by the user: some entries removed
BoxDbInputs == { DefaultBoxDbIds \ X : X \in SUBSET {"13416", "12232", "02018"} }

InverterDbInputs == { DefaultInverterDbIds \ X : X \in SUBSET {"OND-PERSO", "A7300S1-E-2"} }

BomPowerInputs == {3000, 5000}

EvChargerInputs == {"none", "Mono", "Tri"}

\* Panel configurations handed to getPanelCount: a grid, with or without the free-form
\* list of panels per row.
MaxConfigRows == 2

PanelGridInputs == 0..3

PanelConfigInputs ==
    [rows : PanelGridInputs, columns : PanelGridInputs]
    \cup [rows : PanelGridInputs, columns : PanelGridInputs,
          rowConfiguration : UNION { [1..n -> PanelGridInputs] : n \in 0..MaxConfigRows }]

\* Projects handed to the export gate: one roof field of 5 columns, a central inverter
\* (Custom) with one string of at most 10 panels per MPPT or no central inverter (Auto),
\* one DC run per MPPT in use.
GateRowInputs == {1, 2, 4}

GateFields(rows) == << [id |-> 1, rows |-> rows, columns |-> 5, panel |-> DefaultPanel] >>

GateStrings(b, rows) ==
    IF b # "Custom" THEN <<>>
    ELSE IF rows = 4
    THEN << [fieldId |-> 1, panelCount |-> 10, mpptIndex |-> 1],
            [fieldId |-> 1, panelCount |-> 10, mpptIndex |-> 2] >>
    ELSE << [fieldId |-> 1, panelCount |-> rows * 5, mpptIndex |-> 1] >>

GateRuns(b, rows, lengthM, sectionMm2) ==
    [k \in 1..Len(GateStrings(b, rows)) |->
        [mpptIndex |-> k, lengthM |-> lengthM, sectionMm2 |-> sectionMm2,
         parallelStrings |-> 1]]

GateRunLengthInputs == {0, 10, 40}

GateRunSectionInputs == {Null, 25}

GateAc2SectionInputs == {Null, 25, 60, 100, 250}

GateAc1SectionInputs == {Null, 25, 60, 160}

GateDistanceToPanelInputs == {10, 100}

GateDistanceToAcCoffretInputs == {2, 200}

GateAgcpInputs == {Null, 30, 60}

GateModel(b) == IF b = "Custom" THEN "OND-PERSO" ELSE "Auto"

Calls ==
    [fn : {"protection"}, section : SectionInputs, inA : RatingInputs]
    \cup [fn : {"normalize"}, minA : MinRatingInputs, isThreePhase : BOOLEAN]
    \cup [fn : {"pickAc"}, powerVA : PowerInputs, lengthM : LengthInputs, isThreePhase : BOOLEAN,
          breakerA : BreakerInputs, minAuto : FloorInputs]
    \cup [fn : {"ac2"}, totalPowerW : PowerInputs, inverterAcPowerVA : PowerInputs,
          distanceToPanel : LengthInputs, isThreePhase : BOOLEAN, agcpValue : AgcpInputs]
    \cup [fn : {"pickDc"}, lengthM : DcLengthInputs, currentA : DcCurrentInputs,
          baseV : DcVoltageInputs]
    \cup [fn : {"compat"}, strings : CompatStringsInputs, runs : CompatRunsInputs,
          phase : {"Mono"}]
    \cup [fn : {"acref"}, maxAcCurrent : AcCurrentInputs, nominalAcCurrent : AcCurrentInputs,
          maxAcPower : AcPowerInputs, power : {0, 6000}, phase : {"Mono", "Tri"}]
    \cup [fn : {"merge"}, items : BomItemsInputs]
    \cup [fn : {"bom"}, inverterAcPowerVA : BomPowerInputs, isThreePhase : BOOLEAN,
          agcpValue : GateAgcpInputs, evCharger : EvChargerInputs, use1000V : BOOLEAN,
          inverterDB : InverterDbInputs, boxDB : BoxDbInputs]
    \cup [fn : {"panelCount"}, panels : PanelConfigInputs]
    \cup [fn : {"micros"}, inverter : MicroModelInputs, fieldPanels : FieldPanelsInputs]
    \cup [fn : {"cables"}, isThreePhase : BOOLEAN, ac1LengthM : CableLengthInputs,
          ac1Section : CableSectionInputs, ac2LengthM : CableLengthInputs,
          ac2Section : CableSectionInputs, dcSection : {60, 100},
          dcLengthM : CableLengthInputs]
    \cup UNION { { [fn |-> "updateConfig", prev |-> prev, updates |-> updates] :
                       updates \in UpdatesInputs(prev) } : prev \in PrevConfigInputs }
    \cup [fn : {"gate"}, brand : {"Custom", "None"}, phase : {"Mono", "Tri"},
          rows : GateRowInputs, runLengthM : GateRunLengthInputs,
          runSectionMm2 : GateRunSectionInputs,
          acCableSectionMm2 : GateAc2SectionInputs, ac1CableSectionMm2 : GateAc1SectionInputs,
          distanceToPanel : GateDistanceToPanelInputs,
          distanceInverterToAcCoffret : GateDistanceToAcCoffretInputs,
          agcpValue : GateAgcpInputs]

InitSizing == AppInit /\ call \in Calls /\ ret = NoCall

EvalProtection ==
    /\ call.fn = "protection" /\ ret = NoCall
    /\ ret' = [ fn |-> "protection",
                status |-> getProtectionStatusForSection(call.section, call.inA),
                tooHigh |-> isProtectionTooHighForSection(call.section, call.inA),
                oversized |-> isSectionOversizedForIn(call.section, call.inA) ]
    /\ UNCHANGED <<appVars, call>>

EvalNormalize ==
    /\ call.fn = "normalize" /\ ret = NoCall
    /\ ret' = [ fn |-> "normalize",
                value |-> normalizeBreakerA(call.minA, call.isThreePhase),
                inlineValue |-> normalizeBreaker(call.minA, call.isThreePhase) ]
    /\ UNCHANGED <<appVars, call>>

EvalPickAc ==
    /\ call.fn = "pickAc" /\ ret = NoCall
    /\ ret' = [ fn |-> "pickAc",
                section |-> pickAutoAcSectionMm2(call.powerVA, call.lengthM, call.isThreePhase,
                                                 call.breakerA, call.minAuto) ]
    /\ UNCHANGED <<appVars, call>>

\* the AC2 sizing of the bill-of-materials effect and of the screen for one project
EvalAc2 ==
    /\ call.fn = "ac2" /\ ret = NoCall
    /\ LET bomBreaker == ac2BreakerNormalizedA(call.totalPowerW, call.agcpValue, call.isThreePhase)
           uiBreaker == acBreakerNormalizedA(call.totalPowerW, call.agcpValue, call.isThreePhase)
       IN  ret' = [ fn |-> "ac2",
                    bomBreaker |-> bomBreaker,
                    uiBreaker |-> uiBreaker,
                    bomSection |-> pickAutoAc2SectionMm2(call.inverterAcPowerVA,
                                       call.distanceToPanel, call.isThreePhase, bomBreaker),
                    uiSection |-> pickAutoAcSection(call.totalPowerW, call.distanceToPanel,
                                       call.isThreePhase, uiBreaker) ]
    /\ UNCHANGED <<appVars, call>>

EvalPickDc ==
    /\ call.fn = "pickDc" /\ ret = NoCall
    /\ ret' = [ fn |-> "pickDc",
                section |-> pickAutoDcSectionOptionB(call.lengthM, call.currentA, call.baseV),
                rowSection |-> dcMpptDropsAutoS(call.lengthM, call.currentA, call.baseV) ]
    /\ UNCHANGED <<appVars, call>>

EvalCompat ==
    /\ call.fn = "compat" /\ ret = NoCall
    /\ ret' = [ fn |-> "compat",
                report |-> checkElectricalCompatibility(DefaultPanel, GENERIC_INVERTER,
                               projectClimate, 10, 10, 1, call.strings, CompatFields,
                               call.phase, call.runs) ]
    /\ UNCHANGED <<appVars, call>>

\* checkElectricalCompatibility for one data sheet of a central inverter
EvalAcRef ==
    /\ call.fn = "acref" /\ ret = NoCall
    /\ ret' = [ fn |-> "acref",
                report |-> checkElectricalCompatibility(DefaultPanel,
                               AcRefInverter(call.maxAcCurrent, call.nominalAcCurrent,
                                             call.maxAcPower, call.power),
                               projectClimate, 10, 10, 1, <<>>, CompatFields, call.phase, <<>>) ]
    /\ UNCHANGED <<appVars, call>>

\* the equipment lines of the bill-of-materials effect for one project and its catalogs
EvalBom ==
    /\ call.fn = "bom" /\ ret = NoCall
    /\ ret' = [ fn |-> "bom",
                acBoxId |-> SelectAcBoxId(call.inverterAcPowerVA, call.isThreePhase),
                dcBoxId |-> SelectDcBoxId(call.use1000V, call.inverterDB),
                disjId |-> IF call.agcpValue # Null /\ call.agcpValue > 0
                           THEN SelectDisjId(call.agcpValue, call.isThreePhase) ELSE "",
                chargerId |-> IF call.evCharger = "none" THEN ""
                              ELSE IF call.evCharger = "Tri" THEN "A022KS1-E-A"
                              ELSE "A7300S1-E-2",
                bom |-> BomEquipmentLines(call.inverterAcPowerVA, call.isThreePhase,
                            call.agcpValue, call.evCharger, call.use1000V,
                            call.inverterDB, call.boxDB),
                evLineCount |-> Len(EvChargerLines(call.evCharger, call.inverterDB,
                                                   call.boxDB)),
                agcpLineCount |-> Len(AgcpBreakerLines(call.boxDB, call.agcpValue,
                                                       call.isThreePhase)),
                evElec |-> evElec(BomEquipmentLines(call.inverterAcPowerVA,
                               call.isThreePhase, call.agcpValue, call.evCharger,
                               call.use1000V, call.inverterDB, call.boxDB)),
                generalElec |-> generalElec(BomEquipmentLines(call.inverterAcPowerVA,
                                    call.isThreePhase, call.agcpValue, call.evCharger,
                                    call.use1000V, call.inverterDB, call.boxDB)) ]
    /\ UNCHANGED <<appVars, call>>

\* one call of updateInverterConfig on a project
EvalUpdateInverterConfig ==
    /\ call.fn = "updateConfig" /\ ret = NoCall
    /\ ret' = [ fn |-> "updateConfig", newConfig |-> newConfig(call.prev, call.updates) ]
    /\ UNCHANGED <<appVars, call>>

\* the cable lines of the bill of materials and their merge
EvalCables ==
    /\ call.fn = "cables" /\ ret = NoCall
    /\ LET ac1 == calculateAcCableSection(3000, call.ac1LengthM, call.isThreePhase,
                                          call.ac1Section, "AC1")
           ac2 == calculateAcCableSection(3000, call.ac2LengthM, call.isThreePhase,
                                          call.ac2Section, "AC2")
           dc == DcCableLines(call.dcSection, call.dcLengthM)
       IN  ret' = [ fn |-> "cables",
                    runs |-> [k \in 1..Len(ac1) |-> [id |-> ac1[k].id, lengthM |-> call.ac1LengthM]]
                             \o [k \in 1..Len(ac2) |-> [id |-> ac2[k].id, lengthM |-> call.ac2LengthM]]
                             \o [k \in 1..Len(dc) |-> [id |-> dc[k].id, lengthM |-> call.dcLengthM]],
                    bom |-> mergeCableCoilsInBOM(
                                BomCableLines(3000, call.isThreePhase, call.ac1LengthM,
                                    call.ac1Section, call.ac2LengthM, call.ac2Section,
                                    call.dcSection, call.dcLengthM),
                                [k \in 1..4 |-> k]) ]
    /\ UNCHANGED <<appVars, call>>

\* the micro-inverters of the system AC power and those the bill of materials lists
EvalMicros ==
    /\ call.fn = "micros" /\ ret = NoCall
    /\ ret' = [ fn |-> "micros",
                numMicros |-> numMicros(call.inverter[1], call.inverter[2], call.fieldPanels),
                bomMicroQuantity |-> BomMicroQuantity(call.inverter[1], call.inverter[2],
                                                      call.fieldPanels) ]
    /\ UNCHANGED <<appVars, call>>

EvalPanelCount ==
    /\ call.fn = "panelCount" /\ ret = NoCall
    /\ ret' = [ fn |-> "panelCount", count |-> getPanelCount(call.panels) ]
    /\ UNCHANGED <<appVars, call>>

\* two evaluations of the merge on the same lines, and the merge of a merged list; each
\* evaluation has its own values of Math.random()
EvalMerge ==
    /\ call.fn = "merge" /\ ret = NoCall
    /\ \E rnd1 \in RandomDraws, rnd2 \in RandomDraws :
           ret' = [ fn |-> "merge",
                    once |-> mergeCableCoilsInBOM(call.items, rnd1),
                    again |-> mergeCableCoilsInBOM(call.items, rnd2),
                    twice |-> mergeCableCoilsInBOM(mergeCableCoilsInBOM(call.items, rnd1), rnd2) ]
    /\ UNCHANGED <<appVars, call>>

\* one render of the screen and of its bill of materials for one project
EvalGate ==
    /\ call.fn = "gate" /\ ret = NoCall
    /\ LET b == call.brand
           m == GateModel(b)
           ph == call.phase
           flds == GateFields(call.rows)
           strings == GateStrings(b, call.rows)
           runs == GateRuns(b, call.rows, call.runLengthM, call.runSectionMm2)
           report == ComputeCompatibilityReport(flds, strings, runs, b, m, ph)
       IN  ret' = [ fn |-> "gate",
                    report |-> report,
                    runs |-> runs,
                    isCentralInverter |-> isCentralInverter(b, m),
                    effectiveAcCableSection |-> effectiveAcCableSection(flds, b, m, ph),
                    effectiveAc1CableSection |-> effectiveAc1CableSection(flds, b, m, ph),
                    effectiveAc2SectionMm2 |-> effectiveAc2SectionMm2(flds, b, m, ph),
                    acSectionOrderViolation |-> acSectionOrderViolation(flds, b, m, ph),
                    acBreakerNormalizedA |->
                        acBreakerNormalizedA(totalPowerW(flds), agcpValue, ph = "Tri"),
                    acProtectionStatus |-> acProtectionStatus(flds, b, m, ph),
                    acProtectionTooHigh |-> acProtectionTooHigh(flds, b, m, ph),
                    ac2BreakerRefA |-> ac2BreakerRefA(report, agcpValue, ph = "Tri"),
                    isCompatible |-> isCompatible(report),
                    isVoltageDropOk |-> isVoltageDropOk(flds, b, m, ph),
                    isCableProtectionOk |-> isCableProtectionOk(report, flds, b, m, ph),
                    dcCablingValidationOk |-> dcCablingValidationOk(report, runs),
                    isAcOrderOk |-> isAcOrderOk(flds, b, m, ph),
                    canExport |-> canExport(report, flds, runs, b, m, ph) ]
    /\ UNCHANGED <<appVars, call>>

NextSizing ==
    \/ EvalMicros
    \/ EvalCables
    \/ EvalUpdateInverterConfig
    \/ EvalProtection
    \/ EvalNormalize
    \/ EvalPickAc
    \/ EvalAc2
    \/ EvalPickDc
    \/ EvalCompat
    \/ EvalAcRef
    \/ EvalGate
    \/ EvalMerge
    \/ EvalBom
    \/ EvalPanelCount

SpecSizing == InitSizing /\ [][NextSizing]_vars

(***************************************************************************)
(* Properties of the sizing helpers, checked under SpecSizing.             *)
(***************************************************************************)

\* C9: for every section and every rating, getProtectionStatusForSection returns 'danger'
\* if and only if isProtectionTooHighForSection is true, sections absent from the tables
\* included (neither function flags them).
C9_DangerIffTooHigh ==
    ret.fn = "protection" => ((ret.status = "danger") <=> ret.tooHigh)

C9_Witness ==
    /\ ret.fn = "protection"
    /\ call.section = 60 /\ call.inA = 41
    /\ ret.status = "danger" /\ ret.tooHigh

\* C10: for every catalog section S and rating r the status is 'danger' when
\* r > standardMax(S), 'info' when pessimisticMax(S) < r <= standardMax(S) and 'ok' when
\* r <= pessimisticMax(S); the three cases are exhaustive and exclusive because
\* pessimisticMax(S) <= standardMax(S).
C10_StatusThresholds ==
    (ret.fn = "protection" /\ call.section \in {25, 60, 100, 160, 250}) =>
        LET std == getMaxInForSectionStandard(call.section)
            pes == getMaxInForSectionPessimistic(call.section)
        IN  /\ std # Null /\ pes # Null /\ pes <= std
            /\ (call.inA > std => ret.status = "danger")
            /\ (pes < call.inA /\ call.inA <= std => ret.status = "info")
            /\ (call.inA <= pes => ret.status = "ok")

C10_Witness ==
    /\ ret.fn = "protection"
    /\ call.section = 100 /\ call.inA = 45
    /\ ret.status = "info"

C5_SectionMonotone ==
    /\ ret.fn = "pickAc" =>
           \A p \in PowerInputs, l \in LengthInputs :
               (p <= call.powerVA /\ l <= call.lengthM) =>
                   pickAutoAcSectionMm2(p, l, call.isThreePhase, call.breakerA, call.minAuto)
                       <= ret.section
    /\ ret.fn = "pickDc" =>
           \A l \in DcLengthInputs, i \in DcCurrentInputs :
               (l <= call.lengthM /\ i <= call.currentA) =>
                   pickAutoDcSectionOptionB(l, i, call.baseV) <= ret.section

C5_Witness ==
    /\ ret.fn = "pickAc"
    /\ call.minAuto = 25 /\ call.breakerA = 20
    /\ ret.section = 160
    /\ \E p \in PowerInputs, l \in LengthInputs :
           /\ p <= call.powerVA /\ l <= call.lengthM
           /\ pickAutoAcSectionMm2(p, l, call.isThreePhase, call.breakerA, call.minAuto) = 60

\* C6: pickAutoAcSectionMm2 returns the smallest catalog section >= the floor that has
\* both a drop <= 1 % and protection status 'ok'; if there is none, the smallest section
\* >= the floor with a drop <= 1 % and a status other than 'danger'; if there is none
\* either, the largest catalog section.  The inline picker of the screen does the same
\* with the floor of its business rule.
C6_AcPickerResult ==
    LET Pick(powerVA, lengthM, tri, breakerA, floor) ==
            LET cand == { S \in {25, 60, 100, 160, 250} : S >= floor }
                both == { S \in cand : /\ computeAcDropPercentLeq(1, powerVA, lengthM, S, tri)
                                       /\ getProtectionStatusForSection(S, breakerA) = "ok" }
                noDanger == { S \in cand : /\ computeAcDropPercentLeq(1, powerVA, lengthM, S, tri)
                                           /\ getProtectionStatusForSection(S, breakerA) # "danger" }
            IN  IF both # {} THEN SetMin(both)
                ELSE IF noDanger # {} THEN SetMin(noDanger)
                ELSE 250
    IN  /\ ret.fn = "pickAc" =>
               ret.section = Pick(call.powerVA, call.lengthM, call.isThreePhase, call.breakerA,
                                  call.minAuto)
        /\ ret.fn = "ac2" =>
               ret.uiSection = Pick(call.totalPowerW, call.distanceToPanel, call.isThreePhase,
                                    ret.uiBreaker,
                                    IF ~call.isThreePhase /\ ret.uiBreaker \in {32, 40}
                                    THEN 100 ELSE 25)

C6_Witness ==
    /\ ret.fn = "pickAc"
    /\ call.minAuto = 60 /\ call.breakerA = 40 /\ ~call.isThreePhase
    /\ call.powerVA = 9000 /\ call.lengthM = 10
    /\ ret.section = 100

\* C7: in single-phase, whenever the retained normalized AC2 breaker is 32 A or 40 A the
\* auto AC2 section is never below 10 mm2, in the bill of materials and on screen; for a
\* 6 kW load over a 10 m AC2 run with a 32 A breaker it is exactly 10 mm2 with a drop
\* <= 1 %.
C7_Ac2FloorAt32And40 ==
    (ret.fn = "ac2" /\ ~call.isThreePhase) =>
        /\ ret.bomBreaker \in {32, 40} => ret.bomSection >= 100
        /\ ret.uiBreaker \in {32, 40} => ret.uiSection >= 100
        /\ (call.distanceToPanel = 10 /\ ret.bomBreaker = 32 /\ call.inverterAcPowerVA = 6000) =>
               /\ ret.bomSection = 100
               /\ computeAcDropPercentLeq(1, 6000, 10, ret.bomSection, FALSE)
        /\ (call.distanceToPanel = 10 /\ ret.uiBreaker = 32 /\ call.totalPowerW = 6000) =>
               /\ ret.uiSection = 100
               /\ calculateVoltageDropPercentLeq(1, 6000, 10, ret.uiSection, FALSE)

C7_Witness ==
    /\ ret.fn = "ac2" /\ ~call.isThreePhase
    /\ call.totalPowerW = 6000 /\ call.inverterAcPowerVA = 6000 /\ call.distanceToPanel = 10
    /\ call.agcpValue = 30
    /\ ret.bomBreaker = 32 /\ ret.uiBreaker = 32
    /\ ret.bomSection = 100 /\ ret.uiSection = 100

\* C8: the DC auto section is never below 6 mm2: for any length, current and base voltage
\* pickAutoDcSectionOptionB returns a value of {6, 10, 16}, the smallest of them whose
\* drop is <= 3 % (16 if none), and 6 when an input is not positive; the auto section of
\* the per-MPPT rows of the screen is the same value.
C8_DcAutoAtLeast6 ==
    ret.fn = "pickDc" =>
        LET within == { S \in {60, 100, 160} :
                          computeDcDropPctLeq(3, call.lengthM, call.currentA, S, call.baseV) }
        IN  /\ ret.section \in {60, 100, 160}
            /\ (call.lengthM <= 0 \/ call.currentA <= 0 \/ call.baseV <= 0) => ret.section = 60
            /\ (call.lengthM > 0 /\ call.currentA > 0 /\ call.baseV > 0) =>
                   ret.section = (IF within # {} THEN SetMin(within) ELSE 160)
            /\ ret.rowSection = ret.section

C8_Witness ==
    /\ ret.fn = "pickDc"
    /\ call.lengthM = 40 /\ call.currentA = 1200 /\ call.baseV = 6000
    /\ ret.section = 60 /\ ret.rowSection = 60

\* The strings analysed by one compatibility call (without configured strings the
\* analyzer takes one string of the legacy count on MPPT 1), and per MPPT the values the
\* limits of the inverter are compared with.
C3_Strings ==
    IF call.strings = <<>> THEN << [fieldId |-> 0, panelCount |-> 10, mpptIndex |-> 1] >>
    ELSE call.strings

C3_Panel(str) == IF str.fieldId = 0 THEN DefaultPanel ELSE CompatFields[str.fieldId].panel

C3_HasStrings(m) == \E i \in 1..Len(C3_Strings) : C3_Strings[i].mpptIndex = m

C3_VocCold(m) ==
    SumSeq([i \in 1..Len(C3_Strings) |->
        IF C3_Strings[i].mpptIndex = m
        THEN VocColdPanel(C3_Panel(C3_Strings[i]), projectClimate.tempMin) * C3_Strings[i].panelCount
        ELSE 0])

C3_VmpHot(m) ==
    SumSeq([i \in 1..Len(C3_Strings) |->
        IF C3_Strings[i].mpptIndex = m
        THEN VmpHotPanel(C3_Panel(C3_Strings[i]), projectClimate.tempMaxAmb + 35)
                 * C3_Strings[i].panelCount
        ELSE 0])

C3_IscMax(m) ==
    MaxSeq([i \in 1..Len(C3_Strings) |->
        IF C3_Strings[i].mpptIndex = m THEN C3_Panel(C3_Strings[i]).isc ELSE 0])

C3_Parallel(m) ==
    IF \E k \in 1..Len(call.runs) : call.runs[k].mpptIndex = m
    THEN (CHOOSE r \in SeqToSet(call.runs) : r.mpptIndex = m).parallelStrings
    ELSE 1

C3_HasError(kind, m) ==
    \E k \in 1..Len(ret.report.errors) :
        ret.report.errors[k] = [kind |-> kind, mpptIndex |-> m]

\* C3 (as claimed): for every MPPT of a central inverter an error is raised, and
\* isCompatible set to false, if and only if Voc(Tmin) > max input voltage, or
\* Vmp(Thot) < min MPPT voltage, or Isc_calc > max input current, where
\* Isc_calc = max per-segment Isc x parallel string count x 1.25.
C3_ErrorIffWithMargin ==
    ret.fn = "compat" =>
        LET limits == GENERIC_INVERTER.electrical
            Wrong(m) == \/ C3_VocCold(m) > limits.maxInputVoltage * 10000
                        \/ C3_VmpHot(m) < limits.minMpptVoltage * 10000
                        \/ IscTimes125(C3_IscMax(m) * C3_Parallel(m)) > limits.maxInputCurrent
        IN  /\ \A m \in 1..2 :
                   C3_HasStrings(m) =>
                       ((\E kind \in {"Surtension", "VmpTropBas", "CourantTropEleve"} :
                             C3_HasError(kind, m)) <=> Wrong(m))
            /\ ret.report.isCompatible <=> ~(\E m \in 1..2 : C3_HasStrings(m) /\ Wrong(m))

\* C3 (amended): for every MPPT of a central inverter an error is raised, and
\* isCompatible set to false, if and only if Voc(Tmin) > max input voltage, or
\* Vmp(Thot) < min MPPT voltage, or Isc_total > max input current, where
\* Isc_total = max per-segment Isc x parallel string count; the factor 1.25 enters only
\* the reported Isc_calc, not the comparison.
C3_ErrorIffWithoutMargin ==
    ret.fn = "compat" =>
        LET limits == GENERIC_INVERTER.electrical
            TooHighV(m) == C3_VocCold(m) > limits.maxInputVoltage * 10000
            TooLowV(m) == C3_VmpHot(m) < limits.minMpptVoltage * 10000
            TooHighI(m) == C3_IscMax(m) * C3_Parallel(m) > limits.maxInputCurrent
        IN  /\ \A m \in 1..2 :
                   IF C3_HasStrings(m)
                   THEN /\ C3_HasError("Surtension", m) <=> TooHighV(m)
                        /\ C3_HasError("VmpTropBas", m) <=> TooLowV(m)
                        /\ C3_HasError("CourantTropEleve", m) <=> TooHighI(m)
                   ELSE \A kind \in {"Surtension", "VmpTropBas", "CourantTropEleve"} :
                            ~C3_HasError(kind, m)
            /\ ret.report.isCompatible <=>
                   ~(\E m \in 1..2 :
                         C3_HasStrings(m) /\ (TooHighV(m) \/ TooLowV(m) \/ TooHighI(m)))
            /\ \A k \in 1..Len(ret.report.details.stringsAnalysis) :
                   LET a == ret.report.details.stringsAnalysis[k]
                   IN  a.iscCalculation = IscTimes125(C3_IscMax(a.mpptIndex) * C3_Parallel(a.mpptIndex))

C3_Witness ==
    /\ ret.fn = "compat"
    /\ C3_HasStrings(1) /\ C3_HasStrings(2)
    /\ C3_IscMax(1) * C3_Parallel(1) > GENERIC_INVERTER.electrical.maxInputCurrent
    /\ C3_HasError("CourantTropEleve", 1)
    /\ C3_IscMax(2) * C3_Parallel(2) <= GENERIC_INVERTER.electrical.maxInputCurrent
    /\ IscTimes125(C3_IscMax(2) * C3_Parallel(2)) > GENERIC_INVERTER.electrical.maxInputCurrent
    /\ ~C3_HasError("CourantTropEleve", 2)

\* A step of the rebalance effect for a central inverter with a selected model.
C1_RebalanceStep ==
    /\ rebalanceEffect = "pending"
    /\ rebalanceEffect' = "ran"
    /\ RebalanceApplies(brand, model)

\* C1 (as claimed): after the string auto-rebalance has run (central inverter with a
\* selected model), for every roof field whose panel count is > 0 the sum of panelCount
\* over the configured strings assigned to that field equals that field's panel count.
C1_BalancedAfterRebalance ==
    (rebalanceEffect = "ran" /\ RebalanceApplies(brand, model)) =>
        \A i \in 1..Len(fields) :
            getPanelCount(fields[i]) > 0 =>
                AssignedOfField(configuredStrings, fields[i].id) = getPanelCount(fields[i])

\* C1 (amended): the string auto-rebalance leaves, for every roof field whose panel count
\* is > 0, the sum of panelCount over the strings assigned to that field equal to the
\* field's panel count when no string at all was configured before, when the field's
\* strings summed to more than its panel count, or when the field had exactly one string;
\* for any other field (no string of its own, or several strings summing to less than
\* its panel count) the sum is left as it was, below the panel count or equal to it.
C1_BalancedWhereRebalanceActs ==
    [][C1_RebalanceStep =>
          \A i \in 1..Len(fields) :
              LET count == getPanelCount(fields[i])
                  before == AssignedOfField(configuredStrings, fields[i].id)
                  after == AssignedOfField(configuredStrings', fields[i].id)
                  own == Len(StringsOfField(configuredStrings, fields[i].id))
              IN  count > 0 =>
                      IF configuredStrings = <<>> \/ before > count \/ own = 1
                      THEN after = count
                      ELSE after = before /\ after <= count]_vars

C1_Witness ==
    /\ rebalanceEffect = "ran"
    /\ RebalanceApplies(brand, model)
    /\ \E i \in 1..Len(fields) :
           /\ getPanelCount(fields[i]) > 0
           /\ Len(StringsOfField(configuredStrings, fields[i].id)) = 1
           /\ AssignedOfField(configuredStrings, fields[i].id) = getPanelCount(fields[i])
    /\ \E i \in 1..Len(fields) :
           /\ getPanelCount(fields[i]) > 0
           /\ AssignedOfField(configuredStrings, fields[i].id) < getPanelCount(fields[i])

\* C2: for an inverter that requires string configuration (FoxESS non-micro or Custom),
\* whenever for some roof field the total panelCount of the configured strings assigned
\* to that field differs from that field's panel count, the compatibility report has
\* isCompatible=false with a 'Repartition Incorrecte' error and the PDF export is blocked
\* (canExport=false).  Stated of the reports the screen shows once the rebalance effect
\* has run.
C2_FieldMismatchBlocks ==
    ( /\ rebalanceEffect # "pending"
      /\ requiresStringConfig(brand, model)
      /\ ~compatibilityReport.isNull
      /\ \E i \in 1..Len(fields) :
             AssignedOfField(configuredStrings, fields[i].id) # getPanelCount(fields[i]) )
    => ( /\ ~isCompatible(compatibilityReport)
         /\ \E k \in 1..Len(compatibilityReport.errors) :
                compatibilityReport.errors[k].kind = "RepartitionIncorrecte"
         /\ ~canExport(compatibilityReport, fields, dcCablingRuns, brand, model, phase) )

\* C11: oversizing is never an error: for every section and rating, when
\* isSectionOversizedForIn(section, rating) is true, getProtectionStatusForSection is not
\* 'danger' and isProtectionTooHighForSection is false.
C11_OversizedNeverDanger ==
    (ret.fn = "protection" /\ ret.oversized) => (ret.status # "danger" /\ ~ret.tooHigh)

C11_Witness ==
    /\ ret.fn = "protection"
    /\ call.section = 160 /\ call.inA = 32
    /\ ret.oversized /\ ret.status = "ok" /\ ~ret.tooHigh

C13_AcReferencePrecedence ==
    ret.fn = "acref" =>
        LET d == ret.report.details
            S == IF call.maxAcPower # 0 THEN call.maxAcPower ELSE call.power
            hasMax == call.maxAcCurrent # Null /\ call.maxAcCurrent > 0
            hasNom == call.nominalAcCurrent # Null /\ call.nominalAcCurrent > 0
            \* x is S / U rounded to a tenth of an ampere: |10 x S / U - x| <= 1/2
            IsFallback(x) ==
                IF call.phase = "Tri"
                THEN (2 * x - 1) * 1732 <= 50 * S /\ 50 * S <= (2 * x + 1) * 1732
                ELSE (2 * x - 1) * 23 <= 2 * S /\ 2 * S <= (2 * x + 1) * 23
        IN  /\ d.present
            /\ hasMax => (d.nominalAcCurrent = call.maxAcCurrent /\ d.acCurrentBasis = "IAC_MAX")
            /\ (~hasMax /\ hasNom) =>
                   (d.nominalAcCurrent = call.nominalAcCurrent /\ d.acCurrentBasis = "IAC_NOMINAL")
            /\ (~hasMax /\ ~hasNom) =>
                   (IsFallback(d.nominalAcCurrent) /\ d.acCurrentBasis = "FALLBACK_S_OVER_U")

C13_Witness ==
    /\ ret.fn = "acref"
    /\ call.maxAcCurrent = 217 /\ call.nominalAcCurrent = 300 /\ call.maxAcPower = 5000
    /\ ret.report.details.nominalAcCurrent = 217
    /\ ret.report.details.acCurrentBasis = "IAC_MAX"

\* The drops of one export-gate evaluation that exceed 3 %, stated on the inputs of the
\* evaluation and on the effective sections it retained.
C15_Ac2Over ==
    ~calculateVoltageDropPercentLeq(3, totalPowerW(GateFields(call.rows)), call.distanceToPanel,
                                    ret.effectiveAcCableSection, call.phase = "Tri")

C15_Ac1Over ==
    /\ ret.isCentralInverter
    /\ ~calculateVoltageDropPercentLeq(3,
            inverterAcPowerVA(GateFields(call.rows), call.brand, GateModel(call.brand)),
            call.distanceInverterToAcCoffret, ret.effectiveAc1CableSection, call.phase = "Tri")

C15_DcOver ==
    \E k \in 1..Len(ret.report.details.stringsAnalysis) :
        LET a == ret.report.details.stringsAnalysis[k]
            V == IF a.vmpHot # 0 THEN a.vmpHot ELSE 10
            S == IF call.runSectionMm2 # Null THEN call.runSectionMm2
                 ELSE dcMpptDropsAutoS(call.runLengthM, a.iscCalculation, V)
        IN  /\ a.mpptIndex # 0 /\ call.runLengthM > 0
            /\ ~computeDcDropPctLeq(3, call.runLengthM, a.iscCalculation, S, V)

\* C14: in a centralized system, whenever the effective AC2 section is smaller than the
\* effective AC1 section, acSectionOrderViolation is true and the export is blocked
\* (canExport = false) whatever the drop and protection statuses are; in a system that is
\* not centralized the flag is always false.
C14_Ac2BelowAc1Blocks ==
    ret.fn = "gate" =>
        /\ (ret.isCentralInverter /\ ret.effectiveAcCableSection < ret.effectiveAc1CableSection)
               => (ret.acSectionOrderViolation /\ ~ret.canExport)
        /\ ~ret.isCentralInverter => ~ret.acSectionOrderViolation

C14_Witness ==
    /\ ret.fn = "gate"
    /\ ret.isCentralInverter
    /\ call.acCableSectionMm2 = 60 /\ call.ac1CableSectionMm2 = 160
    /\ ret.effectiveAcCableSection = 60 /\ ret.effectiveAc1CableSection = 160
    /\ ret.isCompatible /\ ret.isVoltageDropOk /\ ret.isCableProtectionOk
    /\ ret.dcCablingValidationOk /\ ret.acProtectionStatus # "danger"
    /\ ret.acSectionOrderViolation /\ ~ret.canExport

\* C15: the export is blocked (canExport = false) whenever a voltage drop exceeds 3 %:
\* the AC2 drop, the AC1 drop of a centralized system, or the DC drop of an analysed MPPT
\* run computed with its effective section (the forced one, else the automatic one).
C15_DropOver3Blocks ==
    ret.fn = "gate" => ((C15_Ac2Over \/ C15_Ac1Over \/ C15_DcOver) => ~ret.canExport)

C15_Witness ==
    /\ ret.fn = "gate"
    /\ C15_Ac1Over /\ ~C15_Ac2Over /\ ~C15_DcOver
    /\ ret.isCompatible /\ ret.isCableProtectionOk /\ ret.dcCablingValidationOk
    /\ ret.isAcOrderOk
    /\ ~ret.canExport

\* C16: whenever the AC2 protection status of the screen is 'danger' (effective AC2
\* section against the normalized AC2 breaker of the screen) the export is blocked: the
\* isCableProtectionOk of the export gate is false in exactly the configurations where
\* the acProtectionTooHigh of the screen is true.
C16_ScreenDangerBlocksExport ==
    ret.fn = "gate" =>
        /\ ret.acProtectionTooHigh => ~ret.canExport
        /\ ~ret.isCableProtectionOk <=> ret.acProtectionTooHigh

\* The lines of one merge call that hold a given id, and those identified as cables.
C17_LinesOf(id) == { i \in 1..Len(call.items) : call.items[i].id = id }

C17_CableIds == { call.items[i].id : i \in { j \in 1..Len(call.items) : isCable(call.items[j]) } }

\* C17: mergeCableCoilsInBOM merges only the items identified as cables, by catalog id:
\* the output has exactly one line per cable id, whose quantity is the maximum (not the
\* sum) of the quantities of the lines with that id and whose description joins the
\* distinct source descriptions; every item not identified as a cable appears in the
\* output unmerged, with unchanged quantity, even when several of them share an id.
C17_MergesOnlyCables ==
    ret.fn = "merge" =>
        LET out == ret.once
            NonCable(lines) == SelectSeq(lines, LAMBDA it : ~isCable(it))
        IN  /\ \A id \in C17_CableIds :
                   LET at == { e \in 1..Len(out) : out[e].id = id }
                       lines == C17_LinesOf(id)
                       first == { i \in lines :
                                    /\ call.items[i].description # <<>>
                                    /\ \A j \in lines :
                                           j < i => call.items[j].description
                                                        # call.items[i].description }
                       parts == SortedSeq(first)
                   IN  /\ Cardinality(at) = 1
                       /\ \A e \in at :
                              /\ \A i \in lines : out[e].quantity >= call.items[i].quantity
                              /\ \E i \in lines : out[e].quantity = call.items[i].quantity
                              /\ out[e].description =
                                     FlattenSeq([n \in 1..Len(parts) |->
                                                    call.items[parts[n]].description])
            /\ \A e \in 1..Len(out) : isCable(out[e]) => out[e].id \in C17_CableIds
            /\ NonCable(out) = NonCable(call.items)

\* C18: the merge is idempotent: for every item list L, mergeCableCoilsInBOM applied to
\* mergeCableCoilsInBOM(L) gives mergeCableCoilsInBOM(L) again: the same ids in the same
\* order, the same quantities, the same descriptions.
C18_MergeIdempotent ==
    ret.fn = "merge" => ret.twice = ret.once

\* C19: a missing catalog entry never drops a part from the bill of materials: for every
\* part the assembly rules select (here the inverter, the AC box, the DC box, the AGCP
\* head breaker, the EV charger) the bill of materials holds a line with its id, and when
\* the id is absent from its catalog that line is a placeholder with an empty price.
C19_MissingEntryKeepsLine ==
    ret.fn = "bom" =>
        LET HasLine(id) == \E k \in 1..Len(ret.bom) : ret.bom[k].id = id
            Placeholder(id) ==
                \E k \in 1..Len(ret.bom) : ret.bom[k].id = id /\ ret.bom[k].price = ""
            Kept(id, db) == id # "" => (HasLine(id) /\ (id \notin db => Placeholder(id)))
        IN  /\ Kept("OND-PERSO", call.inverterDB)
            /\ Kept(ret.acBoxId, call.boxDB)
            /\ Kept(ret.dcBoxId, call.boxDB)
            /\ Kept(ret.disjId, call.boxDB)
            /\ Kept(ret.chargerId, call.inverterDB)

\* C20: the compatibility report in use is never stale: after any single configuration
\* change (a change of only the parallel-string count or of another field of
\* dcCablingRuns included) the report consumed by the screen, the DC drop table and the
\* export gate equals checkElectricalCompatibility evaluated on the current configuration.
C20_ReportNeverStale ==
    compatibilityReport =
        ComputeCompatibilityReport(fields, configuredStrings, dcCablingRuns, brand, model, phase)

\* C21: the AC2 cable section used to build the AC2 line of the bill of materials always
\* equals the effective AC2 section shown on screen and passed to the audit and the
\* export: the same automatic or forced result, including the rule that in a centralized
\* system an automatic AC2 section is raised to at least the effective AC1 section.
C21_BomAc2EqualsScreenAc2 ==
    ret.fn = "gate" => ret.effectiveAc2SectionMm2 = ret.effectiveAcCableSection

\* C23: getPanelCount(panels) equals the sum of rowConfiguration when rowConfiguration is
\* present and non-empty, and rows x columns otherwise, for every panel configuration.
C23_PanelCount ==
    ret.fn = "panelCount" =>
        LET p == call.panels
            present == "rowConfiguration" \in DOMAIN p
        IN  IF present /\ p.rowConfiguration # <<>>
            THEN \E total \in 0..(3 * MaxConfigRows + 3) :
                     /\ ret.count = total
                     /\ total = (IF Len(p.rowConfiguration) = 1 THEN p.rowConfiguration[1]
                                 ELSE IF Len(p.rowConfiguration) = 2
                                 THEN p.rowConfiguration[1] + p.rowConfiguration[2]
                                 ELSE p.rowConfiguration[1] + p.rowConfiguration[2]
                                          + p.rowConfiguration[3])
            ELSE ret.count = p.rows * p.columns

C23_Witness ==
    /\ ret.fn = "panelCount"
    /\ "rowConfiguration" \in DOMAIN call.panels
    /\ call.panels.rows = 2 /\ call.panels.columns = 3
    /\ call.panels.rowConfiguration = <<3, 2>>
    /\ ret.count = 5

\* C22: determinism: for a fixed configuration and catalog snapshot, two evaluations of
\* the engine (compatibility report, AC/DC sizing, assembly of the bill of materials
\* followed by the cable merge and the category grouping) produce identical outputs,
\* independent of time and of random values.  The report, the sizing and the assembly are
\* functions of their arguments; the merge is the one step that reads a random value.
C22_SameOutputTwice ==
    ret.fn = "merge" => ret.again = ret.once

\* C24: a breaker or residual-current device is listed under 'BORNE VE' only when it is
\* a protection the EV-charger block added for a selected charger; the head breaker
\* derived from the AGCP rating stays in the general electrical list, with or without an
\* EV charger.
C24_AgcpLines ==
    { k \in 1..Len(ret.bom) : k > Len(ret.bom) - ret.agcpLineCount }

C24_EvLines ==
    { k \in 1..Len(ret.bom) : k > 1 /\ k <= 1 + ret.evLineCount }

C24_OnlyEvProtectionsUnderBorneVe ==
    ret.fn = "bom" =>
        /\ ret.evElec \subseteq C24_EvLines
        /\ C24_AgcpLines \subseteq ret.generalElec

\* C25: updateInverterConfig resets the dependent sub-configurations on every change of
\* brand or model: the result has empty configuredStrings, dcCablingRuns and microBranches,
\* and the phase, battery and backup flags are those of the previous configuration unless
\* the update sets them; an update that changes neither the brand nor the model leaves the
\* three lists as they were, or as the update sets them.
C25_ListOrUpdate(f) ==
    IF f \in DOMAIN call.updates
    THEN ret.newConfig[f] = call.updates[f]
    ELSE ret.newConfig[f] = call.prev[f]

C25_BrandOrModelChangeResets ==
    ret.fn = "updateConfig" =>
        IF ret.newConfig.brand # call.prev.brand \/ ret.newConfig.model # call.prev.model
        THEN /\ ret.newConfig.configuredStrings = <<>>
             /\ ret.newConfig.dcCablingRuns = <<>>
             /\ ret.newConfig.microBranches = <<>>
             /\ C25_ListOrUpdate("phase")
             /\ ret.newConfig.hasBattery = call.prev.hasBattery
             /\ ret.newConfig.hasBackup = call.prev.hasBackup
        ELSE /\ C25_ListOrUpdate("configuredStrings")
             /\ C25_ListOrUpdate("dcCablingRuns")
             /\ C25_ListOrUpdate("microBranches")

C25_Witness ==
    /\ ret.fn = "updateConfig"
    /\ call.prev.brand = "FoxESS" /\ "brand" \in DOMAIN call.updates
    /\ call.prev.configuredStrings # <<>> /\ call.prev.dcCablingRuns # <<>>
    /\ call.prev.microBranches # <<>> /\ call.prev.hasBattery
    /\ ret.newConfig.dcCablingRuns = <<>> /\ ret.newConfig.model = "OND-PERSO"

\* C26: for every MPPT cabling run with a positive length, the DC section under which the
\* bill of materials aggregates the run equals the effective DC section (forced, else
\* automatic) of the row of that MPPT on screen; stated for the states in which the
\* compatibility report is the one of the current configuration.
C26_BomDcSectionEqualsScreen ==
    C20_ReportNeverStale /\ ~compatibilityReport.isNull =>
        \A k \in 1..Len(dcCablingRuns) :
            \A j \in 1..Len(compatibilityReport.details.stringsAnalysis) :
                LET r == dcCablingRuns[k]
                    a == compatibilityReport.details.stringsAnalysis[j]
                IN  r.lengthM > 0 /\ a.mpptIndex = r.mpptIndex =>
                        bomDcEffectiveS(fields, configuredStrings, r)
                            = dcMpptDropsEffectiveS(a, dcCablingRuns)

\* C27: after the assembly and the merge of the cable lines, every cable reference sold in
\* reels is bought in a length (quantity x reel length) at least equal to the sum of the
\* lengths of the runs (AC1, AC2, DC) that resolved to that reference.
C27_RunLength(id) ==
    SumSeq([k \in 1..Len(ret.runs) |-> IF ret.runs[k].id = id THEN ret.runs[k].lengthM ELSE 0])

C27_ReelsCoverRuns ==
    ret.fn = "cables" =>
        \A e \in 1..Len(ret.bom) :
            ret.bom[e].id \in DOMAIN ReelLengthM =>
                ret.bom[e].quantity * ReelLengthM[ret.bom[e].id] >= C27_RunLength(ret.bom[e].id)

\* C28: in a micro-inverter system the number of micro-inverters the system AC power is
\* computed with equals the total quantity of micro-inverters the bill of materials lists,
\* for every distribution of the panels over the roof fields.
C28_PowerMicrosEqualBomMicros ==
    ret.fn = "micros" => ret.numMicros = ret.bomMicroQuantity

\* C29: for every breaker rating of a commercial ladder ({16, 20, 25, 32, 40} or
\* {16, 20, 32, 40, 63}), every power, every length and a floor of 2.5 or 10 mm2, the
\* section pickAutoAcSectionMm2 returns has the protection status 'ok' under that breaker,
\* never 'info' and never 'danger'.
C29_LadderRatings == {16, 20, 25, 32, 40, 63}

C29_AutoSectionIsProtected ==
    ret.fn = "pickAc" /\ call.breakerA \in C29_LadderRatings /\ call.minAuto \in {25, 100} =>
        getProtectionStatusForSection(ret.section, call.breakerA) = "ok"

\* the drop target is missed by every section and the second loop ends on the largest one
C29_Witness ==
    /\ ret.fn = "pickAc" /\ call.breakerA = 63 /\ call.minAuto = 100
    /\ ~computeAcDropPercentLeq(1, call.powerVA, call.lengthM, 250, call.isThreePhase)
    /\ ret.section = 250

\* C30: the DC cable length counted in the bill of materials only comes from the runs of
\* MPPTs that currently have a configured string: after any sequence of adding strings,
\* entering run lengths and removing strings, the length aggregated under every section is
\* the one of the runs whose MPPT still has a string.
C30_RunsWithStrings ==
    SelectSeq(dcCablingRuns,
              LAMBDA r : \E i \in 1..Len(configuredStrings) :
                             configuredStrings[i].mpptIndex = r.mpptIndex)

C30_OnlyRunsOfConfiguredMppts ==
    \A i \in 1..Len(DC_SECTIONS_MM2) :
        lengthBySection(fields, configuredStrings, dcCablingRuns, DC_SECTIONS_MM2[i])
            = lengthBySection(fields, configuredStrings, C30_RunsWithStrings, DC_SECTIONS_MM2[i])

====
